---- MODULE Spec2Model ----
(***************************************************************************)
(* A model of the review agent's suggestion sanitizer, comment renderer,   *)
(* comment signatures and posting pipeline.                                *)
(*                                                                         *)
(* Text is modelled character by character: a string of the program is a   *)
(* sequence of one-character strings, so that trimming, line splitting and *)
(* the regular expressions of the source are computed, not assumed.        *)
(***************************************************************************)
EXTENDS Integers, Sequences, FiniteSets, TLC

(***************************************************************************)
(* Bounds of the model.                                                    *)
(***************************************************************************)
\* longest replacement text enumerated for the sanitizer
MaxRepLen == 4
\* largest line number a suggestion may name
MaxLine == 2
\* runs of the pipeline on the pull request
MaxRuns == 2

(***************************************************************************)
(* String helpers (JavaScript String / RegExp semantics).                  *)
(***************************************************************************)
\* the characters matched by \s and removed by trim()
WhiteSpace == {" ", "\t", "\n", "\r", "\f"}

MinOf(S) == CHOOSE x \in S : \A y \in S : x <= y

\* String.prototype.trimEnd, and replace(/\s+$/u, ""): K holds the distances
\* from the end of s of the characters that are not white space
trimEnd(s) ==
  LET K == {k \in 0..(Len(s) - 1) : s[Len(s) - k] \notin WhiteSpace}
  IN  IF K = {} THEN <<>> ELSE SubSeq(s, 1, Len(s) - MinOf(K))

\* String.prototype.trimStart
trimStart(s) ==
  LET I == {i \in 1..Len(s) : s[i] \notin WhiteSpace}
  IN  IF I = {} THEN <<>> ELSE SubSeq(s, MinOf(I), Len(s))

\* String.prototype.trim
trim(s) == trimStart(trimEnd(s))

\* the match of /^\s*/u
leadingWs(s) ==
  LET I == {i \in 1..Len(s) : s[i] \notin WhiteSpace}
  IN  IF I = {} THEN s ELSE SubSeq(s, 1, MinOf(I) - 1)

\* String.prototype.startsWith
startsWith(s, p) == Len(p) <= Len(s) /\ SubSeq(s, 1, Len(p)) = p

\* p occurs in s at index i (1-based)
matchesAt(s, i, p) ==
  i >= 1 /\ i + Len(p) - 1 <= Len(s) /\ SubSeq(s, i, i + Len(p) - 1) = p

\* String.prototype.includes
includes(s, p) == \E i \in 1..(Len(s) + 1) : matchesAt(s, i, p)

\* String.prototype.split(c) for a one-character separator
RECURSIVE splitOn(_, _)
splitOn(s, c) ==
  LET I == {i \in 1..Len(s) : s[i] = c}
  IN  IF I = {} THEN <<s>>
      ELSE <<SubSeq(s, 1, MinOf(I) - 1)>> \o splitOn(SubSeq(s, MinOf(I) + 1, Len(s)), c)

\* Array.prototype.join
RECURSIVE join(_, _)
join(parts, sep) ==
  IF parts = <<>> THEN <<>>
  ELSE IF Len(parts) = 1 THEN parts[1]
  ELSE parts[1] \o sep \o join(Tail(parts), sep)

\* Array.prototype.map on sequences
mapSeq(xs, f(_)) == [i \in 1..Len(xs) |-> f(xs[i])]

\* content.split(/\r?\n/): split on LF, a CR right before the LF belongs to the separator
splitFileLines(content) ==
  LET raw == splitOn(content, "\n")
  IN  [i \in 1..Len(raw) |->
         IF i < Len(raw) /\ raw[i] # <<>> /\ raw[i][Len(raw[i])] = "\r"
         THEN SubSeq(raw[i], 1, Len(raw[i]) - 1)
         ELSE raw[i]]

\* replace(/\r\n/g, "\n")
RECURSIVE replaceCrLf(_)
replaceCrLf(s) ==
  IF s = <<>> THEN <<>>
  ELSE IF Len(s) >= 2 /\ s[1] = "\r" /\ s[2] = "\n"
       THEN <<"\n">> \o replaceCrLf(SubSeq(s, 3, Len(s)))
       ELSE <<s[1]>> \o replaceCrLf(Tail(s))

\* replace(/\r/g, "\n")
replaceCr(s) == [i \in 1..Len(s) |-> IF s[i] = "\r" THEN "\n" ELSE s[i]]

\* replace(/\n/g, "\r\n")
RECURSIVE replaceLfByCrLf(_)
replaceLfByCrLf(s) ==
  IF s = <<>> THEN <<>>
  ELSE (IF s[1] = "\n" THEN <<"\r", "\n">> ELSE <<s[1]>>) \o replaceLfByCrLf(Tail(s))

\* replace(/\s{2,}/gu, " "): every run of two or more blanks becomes one space
RECURSIVE collapseWs(_)
collapseWs(s) ==
  IF s = <<>> THEN <<>>
  ELSE IF s[1] \in WhiteSpace
       THEN LET run == Len(leadingWs(s))
            IN  IF run >= 2 THEN <<" ">> \o collapseWs(SubSeq(s, run + 1, Len(s)))
                ELSE <<s[1]>> \o collapseWs(Tail(s))
       ELSE <<s[1]>> \o collapseWs(Tail(s))

(***************************************************************************)
(* The working tree: the files the sanitizer reads.                        *)
(***************************************************************************)
VARIABLES
  disk,       \* path -> <<content>> of the file, or <<>> when no such file exists
  sPc,        \* sanitizer harness: "input", "sanitized", "resanitized", "rendered"
  sIn,        \* the ReviewSuggestion under test
  sOut,       \* sanitizeSuggestionReplacement(sIn)
  sOut2,      \* sanitizeSuggestionReplacement of sIn with replacement sOut
  sRendered,  \* renderSuggestionComment(sIn): <<>> for null, <<RenderedSuggestion>> otherwise
  options,    \* CliOptions of the pipeline, the same for every run
  threads,    \* the comment threads of the pull request on the host, oldest first
  history,    \* the commits of the source branch, oldest first; the last one is HEAD
  runNo,      \* the number of runs started
  pc,         \* where the current run stands in main: "idle" before the first run,
              \* "loadDiff", "review", "prepare", "suggestions", "overall", "done"
  lastRun,    \* what the run before the current one did: <<>> or <<[modelReview, posted]>>
  previousReviewSha,          \* findLatestReviewedSha of the prefetched summaries
  preFetchedSignatures,       \* <<>> for undefined, else <<set of signatures>>
  existingCommentSignatures,  \* the deduplication set: <<>> for undefined, else <<set>>
  repositoryId,               \* the posting context has a repository id
  diffInfo,                   \* what loadDiff returned
  modelReview,                \* <<>> or <<the review the model returned>>
  filteredReview,             \* <<>> or <<the review after filterReviewByIgnorePatterns>>
  idx,                        \* the index of the suggestion postSuggestions examines next
  exitCode,                   \* process.exitCode of the current run
  modelCalls,                 \* the number of model calls of the current run
  report,                     \* the closing log line of the run: "none", "noChangesSince",
                              \* "emptyDiff", "allIgnored", "completed", "failed"
  fetched,                    \* the threads were listed at least once in the current run
  startSigs,                  \* the deduplication set as preparePostingContext left it
  fPc,        \* function harness: "off", "input", "returned"
  fArgs,      \* the arguments of the function under test
  fResult     \* what the function returned or threw; <<>> before the call

sanVars == <<disk, sPc, sIn, sOut, sOut2, sRendered>>

fnVars == <<fPc, fArgs, fResult>>

(***************************************************************************)
(* suggestionRendering.ts                                                  *)
(***************************************************************************)
\* variant that leaves a lone carriage return in place (C9 does not hold of it)
normalizeLineEndings_CrLfOnly(content) == replaceCrLf(content)

normalizeLineEndings(content) == replaceCr(replaceCrLf(content))

\* <<segment>> when the range can be read, <<>> for undefined
readOriginalSegment(file, startLine, endLine) ==
  IF disk[file] = <<>> THEN <<>>
  ELSE LET lines == splitFileLines(disk[file][1])
       IN  IF startLine < 1 \/ endLine < startLine \/ startLine > Len(lines) THEN <<>>
           ELSE LET last == IF endLine < Len(lines) THEN endLine ELSE Len(lines)
                IN  <<join(SubSeq(lines, startLine, last), <<"\n">>)>>

isCommentLine(value) ==
  LET normalized == trimStart(value)
  IN  \/ startsWith(normalized, <<"/", "/">>)
      \/ startsWith(normalized, <<"/", "*">>)
      \/ startsWith(normalized, <<"*", " ">>)
      \/ normalized = <<"*">>
      \/ startsWith(normalized, <<"*", "/">>)

shouldPreserveOriginalLine(trimmedLine, originalLines) ==
  \E i \in 1..Len(originalLines) :
     LET trimmedOriginal == trim(originalLines[i])
     IN  trimmedOriginal = trimmedLine /\ isCommentLine(trimmedOriginal)

\* the lookahead (?=\s|$|,|;|\)) at index j of s
fragmentLookahead(s, j) == j > Len(s) \/ s[j] \in (WhiteSpace \cup {",", ";", ")"})

\* content.replace(/(^|\s)<fragment>(?=\s|$|,|;|\))/gu, prefix), scanning from index i
RECURSIVE replaceFragment(_, _, _)
replaceFragment(s, i, fragment) ==
  IF i > Len(s) THEN <<>>
  ELSE IF i = 1 /\ matchesAt(s, 1, fragment) /\ fragmentLookahead(s, 1 + Len(fragment))
       THEN replaceFragment(s, 1 + Len(fragment), fragment)
  ELSE IF /\ s[i] \in WhiteSpace
          /\ matchesAt(s, i + 1, fragment)
          /\ fragmentLookahead(s, i + 1 + Len(fragment))
       THEN <<s[i]>> \o replaceFragment(s, i + 1 + Len(fragment), fragment)
  ELSE <<s[i]>> \o replaceFragment(s, i + 1, fragment)

\* the second loop of stripOriginalFragments: one replace per non-blank original line
RECURSIVE stripEach(_, _)
stripEach(content, originalLines) ==
  IF originalLines = <<>> THEN content
  ELSE LET trimmed == trim(originalLines[1])
       IN  stripEach(IF trimmed = <<>> THEN content ELSE replaceFragment(content, 1, trimmed),
                     Tail(originalLines))

stripOriginalFragments(line, originalLines) ==
  IF trim(line) = <<>> THEN <<>>
  ELSE
    LET trimmedLine == trim(line)
        same == {i \in 1..Len(originalLines) :
                   trim(originalLines[i]) # <<>> /\ trimmedLine = trim(originalLines[i])}
    IN  IF same # {}
        THEN (IF isCommentLine(trim(originalLines[MinOf(same)])) THEN line ELSE <<>>)
        ELSE LET leadingWhitespace == leadingWs(line)
                 content == SubSeq(line, Len(leadingWhitespace) + 1, Len(line))
                 stripped == trim(collapseWs(stripEach(content, originalLines)))
             IN  IF stripped = <<>> THEN <<>> ELSE leadingWhitespace \o stripped

\* variant that keeps every non-blank line, duplicate of an original line or not
\* (C6 does not hold of it)
keepFilteredLine_NoDuplicateCheck(line, originalLines) == Len(trimEnd(line)) # 0

\* the predicate of the .filter() at lines 80-89
keepFilteredLine(line, originalLines) ==
  LET trimmed == trimEnd(line)
  IN  IF Len(trimmed) = 0 THEN FALSE
      ELSE IF shouldPreserveOriginalLine(trimmed, originalLines) THEN TRUE
      ELSE ~ \E i \in 1..Len(originalLines) : trim(originalLines[i]) = trim(trimmed)

\* the loop at lines 90-95: drop a line equal to the line kept just before it
RECURSIVE dedupeAdjacent(_)
dedupeAdjacent(lines) ==
  IF Len(lines) <= 1 THEN lines
  ELSE LET init == dedupeAdjacent(SubSeq(lines, 1, Len(lines) - 1))
           line == lines[Len(lines)]
       IN  IF init[Len(init)] # line THEN Append(init, line) ELSE init

\* the match of new RegExp(escapeForRegex(trimmedOriginal) + "\\s*$", "u") in normalized:
\* the set of indices where the original, followed only by blanks, ends the text
suffixMatches(normalized, trimmedOriginal) ==
  {i \in 1..Len(normalized) :
     /\ matchesAt(normalized, i, trimmedOriginal)
     /\ \A j \in (i + Len(trimmedOriginal))..Len(normalized) : normalized[j] \in WhiteSpace}

\* lines 66-72
stripOriginalSuffix(normalized, trimmedOriginal) ==
  LET M == suffixMatches(normalized, trimmedOriginal)
  IN  IF M = {} THEN normalized
      ELSE LET candidate == trimEnd(SubSeq(normalized, 1, MinOf(M) - 1))
           IN  IF Len(candidate) > 0 THEN candidate ELSE normalized

\* lines 74-95: the replacement's lines after fragment stripping, filtering and
\* removal of adjacent repeats (dedupedLines)
survivingLines(normalized, trimmedOriginal) ==
  LET originalLines == mapSeq(splitOn(normalizeLineEndings(trimmedOriginal), "\n"), trimEnd)
      sanitizedLines == splitOn(normalizeLineEndings(normalized), "\n")
      strippedLines == [i \in 1..Len(sanitizedLines) |->
                          stripOriginalFragments(sanitizedLines[i], originalLines)]
      keep(line) == keepFilteredLine(line, originalLines)
      filteredLines == SelectSeq(strippedLines, keep)
  IN  dedupeAdjacent(filteredLines)

\* lines 96-100
joinSurvivors(normalized, dedupedLines) ==
  IF Len(dedupedLines) > 0 THEN trimEnd(join(dedupedLines, <<"\n">>)) ELSE normalized

sanitizeSuggestionReplacement(suggestion) ==
  LET normalized == trimEnd(normalizeLineEndings(suggestion.replacement))
  IN  IF normalized = <<>> THEN normalized
      ELSE LET originalSegment ==
                 readOriginalSegment(suggestion.file, suggestion.startLine, suggestion.endLine)
           IN  IF originalSegment = <<>> \/ originalSegment[1] = <<>> THEN normalized
               ELSE LET trimmedOriginal == trim(normalizeLineEndings(originalSegment[1]))
                    IN  IF trimmedOriginal = <<>> THEN normalized
                        ELSE LET baseline == stripOriginalSuffix(normalized, trimmedOriginal)
                             IN  joinSurvivors(baseline,
                                               survivingLines(baseline, trimmedOriginal))

renderReplacementForSuggestion(replacement) == replaceLfByCrLf(normalizeLineEndings(replacement))

\* originFinding is <<>> when absent, else <<[title, details]>>; an empty text is falsy
buildSuggestionContextLines(suggestion) ==
  (IF suggestion.originFinding # <<>>
   THEN (IF suggestion.originFinding[1].title # <<>>
         THEN <<suggestion.originFinding[1].title>> ELSE <<>>)
        \o (IF suggestion.originFinding[1].details # <<>>
            THEN <<suggestion.originFinding[1].details>> ELSE <<>>)
   ELSE <<>>)
  \o <<suggestion.comment>>

\* the backquote character, which a TLA+ string literal cannot hold
BQ == "bq"

\* the text of the opening fence: three backquotes and the word suggestion
SuggestionFence == <<BQ, BQ, BQ, "s", "u", "g", "g", "e", "s", "t", "i", "o", "n">>

isNonBlank(line) == line # <<>> /\ Len(trim(line)) > 0

\* variant that renders whatever sanitize returns, the empty text included
\* (C10 does not hold of it)
renderSuggestionComment_NoNullCheck(suggestion) ==
  LET sanitizedReplacement == sanitizeSuggestionReplacement(suggestion)
      body == join(SelectSeq(buildSuggestionContextLines(suggestion), isNonBlank),
                   <<"\n", "\n">>)
              \o <<"\n", "\n">> \o SuggestionFence \o <<"\n">>
              \o renderReplacementForSuggestion(sanitizedReplacement) \o <<"\n", BQ, BQ, BQ>>
  IN  <<[body |-> body, sanitizedReplacement |-> sanitizedReplacement]>>

\* <<>> for null, <<[body, sanitizedReplacement]>> otherwise
renderSuggestionComment(suggestion) ==
  LET sanitizedReplacement == sanitizeSuggestionReplacement(suggestion)
  IN  IF sanitizedReplacement = <<>> THEN <<>>
      ELSE LET contextLines == buildSuggestionContextLines(suggestion)
               renderedReplacement == renderReplacementForSuggestion(sanitizedReplacement)
               body == join(SelectSeq(contextLines, isNonBlank), <<"\n", "\n">>)
                       \o <<"\n", "\n">> \o SuggestionFence \o <<"\n">>
                       \o renderedReplacement \o <<"\n", BQ, BQ, BQ>>
           IN  <<[body |-> body, sanitizedReplacement |-> sanitizedReplacement]>>

(***************************************************************************)
(* ignore.ts                                                               *)
(***************************************************************************)
\* filePath.replace(/\\/g, "/")
backslashesToSlashes(s) == [i \in 1..Len(s) |-> IF s[i] = "\\" THEN "/" ELSE s[i]]

\* variant that leaves backslashes in place (C22 does not hold of it)
normalizeFilePath_KeepBackslashes(filePath) ==
  IF startsWith(filePath, <<".", "/">>) THEN SubSeq(filePath, 3, Len(filePath)) ELSE filePath

normalizeFilePath(filePath) ==
  LET slashed == backslashesToSlashes(filePath)
  IN  IF startsWith(slashed, <<".", "/">>) THEN SubSeq(slashed, 3, Len(slashed)) ELSE slashed

\* micromatch.isMatch(path, pattern, {dot: true}) for the patterns used here: a
\* pattern "<dir>/**" matches every path below <dir>, any other pattern matches itself
globMatches(path, pattern) ==
  IF Len(pattern) >= 3 /\ SubSeq(pattern, Len(pattern) - 2, Len(pattern)) = <<"/", "*", "*">>
  THEN Len(path) > Len(pattern) - 2 /\ startsWith(path, SubSeq(pattern, 1, Len(pattern) - 2))
  ELSE path = pattern

shouldIgnoreFile(filePath, patterns) ==
  IF Len(patterns) = 0 THEN FALSE
  ELSE \E i \in 1..Len(patterns) : globMatches(normalizeFilePath(filePath), patterns[i])

\* variant that ignores the patterns (C15 does not hold of it)
filterFileDiffs_KeepAll(fileDiffs, patterns) == fileDiffs

\* FileDiff is modelled by its path
filterFileDiffs(fileDiffs, patterns) ==
  LET kept(path) == ~ shouldIgnoreFile(path, patterns)
  IN  IF Len(patterns) = 0 THEN fileDiffs ELSE SelectSeq(fileDiffs, kept)

\* a finding's file, or else the file of its suggestion, decides; one with neither stays
filterReviewFiles(items, patterns) ==
  LET kept(item) ==
        LET effectiveFile == IF item.file # <<>> THEN item.file
                             ELSE IF item.suggestion # <<>> THEN <<item.suggestion[1].file>>
                             ELSE <<>>
        IN  effectiveFile = <<>> \/ effectiveFile[1] = <<>>
            \/ ~ shouldIgnoreFile(effectiveFile[1], patterns)
  IN  IF Len(patterns) = 0 THEN items ELSE SelectSeq(items, kept)

filterSuggestionsByIgnorePatterns(suggestions, patterns) ==
  LET kept(suggestion) == ~ shouldIgnoreFile(suggestion.file, patterns)
  IN  IF Len(patterns) = 0 THEN suggestions ELSE SelectSeq(suggestions, kept)

\* reviewProcessing.ts is not part of the sources at hand: the review is filtered with
\* the two filters ignore.ts exports for it
filterReviewByIgnorePatterns(review, patterns) ==
  [review EXCEPT !.findings = filterReviewFiles(review.findings, patterns),
                 !.suggestions = filterSuggestionsByIgnorePatterns(review.suggestions, patterns)]

(***************************************************************************)
(* Comment signatures (git.ts 340-390).  An optional argument is <<>> when *)
(* undefined and <<value>> otherwise; so is an optional result.            *)
(***************************************************************************)
Digits == <<"0", "1", "2", "3", "4", "5", "6", "7", "8", "9">>

\* `${n}` for an integer n
RECURSIVE toDecimal(_)
toDecimal(n) ==
  IF n < 0 THEN <<"-">> \o toDecimal(0 - n)
  ELSE IF n < 10 THEN <<Digits[n + 1]>>
  ELSE toDecimal(n \div 10) \o <<Digits[(n % 10) + 1]>>

\* file.replace(/^\/+/, "")
RECURSIVE stripLeadingSlashes(_)
stripLeadingSlashes(s) ==
  IF s # <<>> /\ s[1] = "/" THEN stripLeadingSlashes(Tail(s)) ELSE s

normalizeThreadFilePath(file) == <<"/">> \o stripLeadingSlashes(backslashesToSlashes(file))

buildCommentSignature(content, filePath, startLine, endLine) ==
  IF content = <<>> \/ content[1] = <<>> THEN <<>>
  ELSE LET normalizedContent == trimEnd(trim(content[1]))
       IN  IF Len(normalizedContent) = 0 THEN <<>>
           ELSE LET normalizedPath == IF filePath # <<>> /\ filePath[1] # <<>>
                                      THEN normalizeThreadFilePath(filePath[1]) ELSE <<>>
                    start == IF startLine # <<>> THEN startLine[1] ELSE 0
                    end == IF endLine # <<>> THEN endLine[1]
                           ELSE IF startLine # <<>> THEN startLine[1] ELSE 0
                IN  << normalizedPath \o <<":", ":">> \o toDecimal(start) \o <<":", ":">>
                       \o toDecimal(end) \o <<":", ":">> \o normalizedContent >>

buildSuggestionSignaturePayload(suggestion, renderedComment) ==
  [content |-> <<renderedComment>>, filePath |-> <<suggestion.file>>,
   startLine |-> <<suggestion.startLine>>, endLine |-> <<suggestion.endLine>>]

(***************************************************************************)
(* The last-reviewed marker (command.ts 55-65)                             *)
(***************************************************************************)
UpperCase == <<"A", "B", "C", "D", "E", "F", "G", "H", "I", "J", "K", "L", "M",
               "N", "O", "P", "Q", "R", "S", "T", "U", "V", "W", "X", "Y", "Z">>
LowerCase == <<"a", "b", "c", "d", "e", "f", "g", "h", "i", "j", "k", "l", "m",
               "n", "o", "p", "q", "r", "s", "t", "u", "v", "w", "x", "y", "z">>

\* the case folding of the i flag
toLowerChar(c) ==
  IF \E k \in 1..26 : UpperCase[k] = c
  THEN LowerCase[CHOOSE k \in 1..26 : UpperCase[k] = c] ELSE c

\* [0-9a-f] under the i flag
HexChars == {Digits[k] : k \in 1..10} \cup {LowerCase[k] : k \in 1..6}
              \cup {UpperCase[k] : k \in 1..6}

matchesAtIgnoreCase(s, i, p) ==
  /\ i + Len(p) - 1 <= Len(s)
  /\ \A k \in 1..Len(p) : toLowerChar(s[i + k - 1]) = p[k]

\* the index after the run of blanks that starts at i (\s*)
skipWs(s, i) ==
  MinOf({j \in i..(Len(s) + 1) : j > Len(s) \/ s[j] \notin WhiteSpace})

\* the length of the run of hexadecimal digits that starts at i
hexRun(s, i) ==
  MinOf({j \in i..(Len(s) + 1) : j > Len(s) \/ s[j] \notin HexChars}) - i

MarkerOpen == <<"<", "!", "-", "-">>
MarkerKey == <<"c", "o", "d", "e", "x", "-", "r", "e", "v", "i", "e", "w", "-", "h", "e", "a", "d", ":">>
MarkerClose == <<"-", "-", ">">>
MinShaLen == 7
MaxShaLen == 40

\* REVIEW_HEAD_REGEX tried at index i of s: <<>> when it does not match there, else
\* <<[sha, next]>> with the captured digits and the index after the match.  The run of
\* digits is followed by a character that is no digit, so {7,40} matches the whole run
\* or nothing.  The steps, last first: n digits at d, then blanks up to e, then -->
markerClose(s, d, n, e) ==
  IF n >= MinShaLen /\ n <= MaxShaLen /\ matchesAt(s, e, MarkerClose)
  THEN <<[sha |-> SubSeq(s, d, d + n - 1), next |-> e + Len(MarkerClose)]>>
  ELSE <<>>

markerDigits(s, d, n) == markerClose(s, d, n, skipWs(s, d + n))

\* the key at k, then blanks, then the digits
markerKey(s, k) ==
  IF matchesAtIgnoreCase(s, k, MarkerKey)
  THEN markerDigits(s, skipWs(s, k + Len(MarkerKey)),
                    hexRun(s, skipWs(s, k + Len(MarkerKey))))
  ELSE <<>>

markerAt(s, i) ==
  IF matchesAt(s, i, MarkerOpen) THEN markerKey(s, skipWs(s, i + Len(MarkerOpen)))
  ELSE <<>>

\* the capture of the first match, if any
firstMarker(content, hits) ==
  IF hits = {} THEN <<>> ELSE <<markerAt(content, MinOf(hits))[1].sha>>

\* variant that finds the marker only when it opens the content (C12 does not hold of it)
extractReviewHeadSha_AtStartOnly(content) ==
  firstMarker(content, {i \in {1} : markerAt(content, i) # <<>>})

extractReviewHeadSha(content) ==
  firstMarker(content, {i \in 1..Len(content) : markerAt(content, i) # <<>>})

\* content.replace(REVIEW_HEAD_REGEX_GLOBAL, ""), scanning from index i; m is the
\* match at i
RECURSIVE removeMarkers(_, _)
removeMarkersAt(s, i, m) ==
  IF m # <<>> THEN removeMarkers(s, m[1].next) ELSE <<s[i]>> \o removeMarkers(s, i + 1)

removeMarkers(s, i) ==
  IF i > Len(s) THEN <<>> ELSE removeMarkersAt(s, i, markerAt(s, i))

\* variant that leaves the marker in the text (C1 does not hold of it)
stripReviewMetadata_KeepMarker(content) == trim(content)

stripReviewMetadata(content) == trim(removeMarkers(content, 1))

(***************************************************************************)
(* The overall comment (codex.ts 205-229, commentPosting.ts 17-70)         *)
(***************************************************************************)
\* the en dash of the findings header, kept as one named character
EnDash == "endash"

\* one entry of buildFindingsSummary.  A finding is [file, line, title, details,
\* suggestion]; file, line and suggestion are optional, an absent title or details
\* is the empty text
findingSummary(finding) ==
  LET filePath == IF finding.file # <<>> THEN finding.file[1]
                  ELSE IF finding.suggestion # <<>> THEN finding.suggestion[1].file
                  ELSE <<"u", "n", "k", "n", "o", "w", "n">>
      lineNumber == IF finding.line # <<>> THEN toDecimal(finding.line[1])
                    ELSE IF finding.suggestion # <<>>
                         THEN toDecimal(finding.suggestion[1].start_line)
                    ELSE <<"?">>
      header == <<"-", " ", " ">> \o filePath \o <<":">> \o lineNumber
                \o (IF finding.title # <<>> THEN <<" ", EnDash, " ">> \o finding.title
                    ELSE <<>>)
      detailLines ==
        (IF Len(trim(finding.details)) > 0 THEN <<<<" ", " ">> \o finding.details>> ELSE <<>>)
        \o (IF finding.suggestion # <<>>
            THEN LET s == finding.suggestion[1]
                 IN  << <<" ", " ", "S", "u", "g", "g", "e", "s", "t", "e", "d", " ", "f", "i", "x", " ", "f", "o", "r", " ", "l", "i", "n", "e", "s", " ">> \o toDecimal(s.start_line)
                        \o (IF s.end_line # <<>> /\ s.end_line[1] # 0
                               /\ s.end_line[1] # s.start_line
                            THEN <<"-">> \o toDecimal(s.end_line[1]) ELSE <<>>)
                        \o <<".">> >>
            ELSE <<>>)
  IN  join(<<header>> \o detailLines, <<"\n">>)

buildFindingsSummary(findings) == [i \in 1..Len(findings) |-> findingSummary(findings[i])]

DefaultSummary == <<"A", "u", "t", "o", "m", "a", "t", "e", "d", " ", "r", "e", "v", "i", "e", "w", " ", "c", "o", "m", "p", "l", "e", "t", "e", "d", ".">>
FindingsHeading == <<"#", "#", "#", " ", "F", "i", "n", "d", "i", "n", "g", "s">>

\* commentText of postOverallComment
overallCommentText(review) ==
  LET contentLines ==
        <<IF review.summary # <<>> THEN review.summary ELSE DefaultSummary>>
        \o (IF Len(review.findings) > 0
            THEN <<<<>>, FindingsHeading>> \o buildFindingsSummary(review.findings)
            ELSE <<>>)
  IN  trim(join(contentLines, <<"\n">>))

\* finalCommentText of postOverallComment
withReviewHead(commentText, reviewedSourceSha) ==
  IF reviewedSourceSha # <<>> /\ reviewedSourceSha[1] # <<>>
  THEN commentText \o <<"\n", "\n", "<", "!", "-", "-", " ", "c", "o", "d", "e", "x", "-", "r", "e", "v", "i", "e", "w", "-", "h", "e", "a", "d", ":", " ">> \o reviewedSourceSha[1] \o <<" ", "-", "-", ">">>
  ELSE commentText

(***************************************************************************)
(* Reading the threads of the pull request (command.ts 193-313).  A thread *)
(* is [comments, threadContext, run]: comments are [content, commentType,  *)
(* id], threadContext is optional and holds the anchor a thread of this    *)
(* tool carries (filePath, rightFileStart.line, rightFileEnd.line); run is *)
(* the number of the run that created the thread.                          *)
(***************************************************************************)
threadFilePath(thread) ==
  IF thread.threadContext = <<>> THEN <<>> ELSE <<thread.threadContext[1].filePath>>

\* rightFileStart.line ?? ... ?? rightFileEnd.line
threadStartLine(thread) ==
  IF thread.threadContext = <<>> THEN <<>> ELSE <<thread.threadContext[1].rightFileStart>>

threadEndLine(thread) ==
  IF thread.threadContext = <<>> THEN <<>> ELSE <<thread.threadContext[1].rightFileEnd>>

\* the signature recordThreadSignatures computes for a comment whose content, markers
\* stripped, is sanitizedContent
signatureOfSanitized(thread, sanitizedContent) ==
  IF sanitizedContent = <<>> THEN <<>>
  ELSE buildCommentSignature(
         <<sanitizedContent>>,
         IF threadFilePath(thread) # <<>> /\ threadFilePath(thread)[1] # <<>>
         THEN <<normalizeThreadFilePath(threadFilePath(thread)[1])>> ELSE <<>>,
         threadStartLine(thread), threadEndLine(thread))

\* the signature recordThreadSignatures computes for one comment of a thread
commentSignature(thread, comment) ==
  IF comment.content = <<>> \/ comment.commentType # "text" THEN <<>>
  ELSE signatureOfSanitized(thread, stripReviewMetadata(comment.content))

\* the ExistingCommentSummary pushed for a comment
commentSummary(thread, comment) ==
  [content |-> stripReviewMetadata(comment.content),
   rawContent |-> comment.content,
   reviewHeadSha |-> extractReviewHeadSha(comment.content),
   filePath |-> threadFilePath(thread),
   startLine |-> threadStartLine(thread),
   endLine |-> threadEndLine(thread),
   commentId |-> <<comment.id>>]

\* what recordThreadSignatures adds for a thread whose comments have the signatures
\* sigs: the signatures, and the summary of the first comment that has one
threadFeedback(thread, sigs) ==
  [signatures |-> {sigs[k][1] : k \in {j \in 1..Len(sigs) : sigs[j] # <<>>}},
   summaries |->
     IF \A k \in 1..Len(sigs) : sigs[k] = <<>> THEN <<>>
     ELSE <<commentSummary(thread,
                           thread.comments[MinOf({j \in 1..Len(sigs) : sigs[j] # <<>>})])>>]

recordThreadSignatures(thread) ==
  threadFeedback(thread, [k \in 1..Len(thread.comments) |->
                            commentSignature(thread, thread.comments[k])])

NoFeedback == [signatures |-> {}, summaries |-> <<>>]

mergeFeedback(a, b) ==
  [signatures |-> a.signatures \cup b.signatures, summaries |-> a.summaries \o b.summaries]

\* the loop of fetchExistingCommentSignatures over the listed threads
RECURSIVE recordAll(_)
recordAll(listed) ==
  IF listed = <<>> THEN NoFeedback
  ELSE mergeFeedback(recordAll(SubSeq(listed, 1, Len(listed) - 1)),
                     recordThreadSignatures(listed[Len(listed)]))

\* variant that returns what it recorded although the listing failed (C29 does not
\* hold of it)
fetchExistingCommentSignatures_Unswallowed(listed, ok) == recordAll(listed)

\* fetchExistingCommentSignatures; ok tells whether fetchThreadsViaRest answered
fetchExistingCommentSignatures(listed, ok) == IF ok THEN recordAll(listed) ELSE NoFeedback

(***************************************************************************)
(* index.ts 429-434                                                        *)
(***************************************************************************)
\* variant without the sort: the first summary that carries a marker (C13 does not
\* hold of it)
findLatestReviewedSha_Unsorted(summaries) ==
  LET candidates == {k \in 1..Len(summaries) :
                       summaries[k].reviewHeadSha # <<>> /\ summaries[k].reviewHeadSha[1] # <<>>}
  IN  IF candidates = {} THEN <<>> ELSE summaries[MinOf(candidates)].reviewHeadSha

\* the stable descending sort puts first the earliest summary among those with the
\* highest commentId
findLatestReviewedSha(summaries) ==
  LET candidates == {k \in 1..Len(summaries) :
                       summaries[k].reviewHeadSha # <<>> /\ summaries[k].reviewHeadSha[1] # <<>>}
      idOf(k) == IF summaries[k].commentId # <<>> THEN summaries[k].commentId[1] ELSE 0
      top == {k \in candidates : \A j \in candidates : idOf(j) <= idOf(k)}
  IN  IF candidates = {} THEN <<>> ELSE summaries[MinOf(top)].reviewHeadSha

(***************************************************************************)
(* The git repository (git.ts 200-260).  history is the list of the        *)
(* commits of the source branch, oldest first, each given by the tree it   *)
(* holds; the last one is HEAD.  The target branch holds tree 0.           *)
(***************************************************************************)
FileA == <<"a">>
FileT == <<"t", "/", "a">>
FileOrder == <<FileA, FileT>>

Trees == {0, 1, 2}

\* the files in which a tree differs from the target branch
TreeFiles(t) == IF t = 1 THEN {FileA} ELSE IF t = 2 THEN {FileT} ELSE {}

\* git diff between two trees, one FileDiff (a path) per file that differs
diffFiles(t1, t2) ==
  LET differs(f) == (f \in TreeFiles(t1)) # (f \in TreeFiles(t2))
  IN  SelectSeq(FileOrder, differs)

\* the SHA of the i-th commit: 40 hexadecimal digits
Sha(i) == <<Digits[i + 1]>> \o [k \in 1..39 |-> "e"]

\* git rev-parse of a full SHA: the commit it names, 0 when there is none
revparse(sha) ==
  LET named == {i \in 1..Len(history) : Sha(i) = sha}
  IN  IF named = {} THEN 0 ELSE MinOf(named)

NoDiff == [sourceSha |-> <<>>, baseSha |-> <<>>, files |-> <<>>]

\* gitDiff; present tells whether the commit of sinceCommit is in the local clone
gitDiff(sinceCommit, present) ==
  LET sourceSha == Sha(Len(history))
      trimmed == IF sinceCommit = <<>> THEN <<>> ELSE trim(sinceCommit[1])
      incremental == /\ sinceCommit # <<>> /\ sinceCommit[1] # <<>>
                     /\ Len(trimmed) > 0
                     /\ trimmed # sourceSha
                     /\ present /\ revparse(trimmed) # 0
  IN  IF incremental
      THEN [sourceSha |-> <<sourceSha>>, baseSha |-> <<Sha(revparse(trimmed))>>,
            files |-> diffFiles(history[revparse(trimmed)], history[Len(history)])]
      ELSE [sourceSha |-> <<sourceSha>>, baseSha |-> <<>>,
            files |-> diffFiles(0, history[Len(history)])]

(***************************************************************************)
(* The reviews the model may return, as parseReview hands them on.         *)
(***************************************************************************)
SugComma ==
  [file |-> FileA, startLine |-> 1, endLine |-> 1, comment |-> <<"c">>,
   replacement |-> <<",">>, originFinding |-> <<>>]
SugSecondLine ==
  [file |-> FileA, startLine |-> 2, endLine |-> 2, comment |-> <<"c">>,
   replacement |-> <<",">>, originFinding |-> <<[title |-> <<"t">>, details |-> <<>>]>>]
SugInTests ==
  [file |-> FileT, startLine |-> 1, endLine |-> 1, comment |-> <<"c">>,
   replacement |-> <<",">>, originFinding |-> <<>>]
SugEmpty ==
  [file |-> FileA, startLine |-> 1, endLine |-> 1, comment |-> <<"c">>,
   replacement |-> <<>>, originFinding |-> <<>>]

FindingA ==
  [file |-> <<FileA>>, line |-> <<1>>, title |-> <<"t">>, details |-> <<>>,
   suggestion |-> <<>>]

\* no summary, nothing found
ReviewEmpty == [summary |-> <<>>, findings |-> <<>>, suggestions |-> <<>>]
\* a finding; a suggestion in a file the ignore pattern covers, one with an empty
\* replacement, the same suggestion twice, and one at another line
ReviewFull ==
  [summary |-> <<"s">>, findings |-> <<FindingA>>,
   suggestions |-> <<SugInTests, SugEmpty, SugComma, SugComma, SugSecondLine>>]
ReviewPool == {ReviewEmpty, ReviewFull}

\* the working tree the runs read: FileA has two lines, FileT is not checked out
RunDisk == (FileA :> <<<<"a", "\n", "*">>>>) @@ (FileT :> <<>>)

IgnoreTests == <<<<"t", "/", "*", "*">>>>

\* the options of the pipeline: prId and repositoryId tell whether the option is set
OptionSets ==
  [prId : BOOLEAN, repositoryId : BOOLEAN, dryRun : BOOLEAN, ignoreFiles : {<<>>, IgnoreTests}]

(***************************************************************************)
(* One run of main (index.ts 301-404), a step per awaited call; runs       *)
(* follow one another on the same pull request.                            *)
(***************************************************************************)
runLocals ==
  <<previousReviewSha, preFetchedSignatures, existingCommentSignatures, repositoryId,
    diffInfo, modelReview, filteredReview, idx, exitCode, modelCalls, report, fetched, startSigs>>

runVars == <<options, threads, history, runNo, pc, lastRun, runLocals>>

vars == <<sanVars, runVars, fnVars>>

\* the run has posted: not dry, on a pull request, repository known, ended normally
PostedSuccessfully ==
  options.prId /\ ~ options.dryRun /\ repositoryId /\ report = "completed"

\* the host stores the thread as sent; the first comment of a thread has id 1
hostCreateThread(thread) ==
  Append(threads,
         [comments |-> <<[content |-> thread.content, commentType |-> "text", id |-> 1]>>,
          threadContext |-> thread.threadContext,
          run |-> runNo])

\* existingCommentSignatures?.has(signature)
hasSignature(signatures, signature) ==
  signature # <<>> /\ signatures # <<>> /\ signature[1] \in signatures[1]

\* variant that never records a posted signature (C2 does not hold of it)
recordSignature_Forgotten(signatures, signature) == signatures

\* if (signature) existingCommentSignatures?.add(signature)
recordSignature(signatures, signature) ==
  IF signature # <<>> /\ signatures # <<>>
  THEN <<signatures[1] \cup {signature[1]}>> ELSE signatures

\* the thread is created unless its signature is known: <<>> when it is skipped, else
\* the thread to create and its signature
unlessPosted(thread, signature, signatures) ==
  IF hasSignature(signatures, signature) THEN <<>>
  ELSE <<[thread |-> thread, signature |-> signature]>>

\* the thread postSuggestions builds for a suggestion rendered as suggestionBlock
suggestionThread(suggestion, suggestionBlock) ==
  [content |-> suggestionBlock,
   threadContext |-> <<[filePath |-> normalizeThreadFilePath(suggestion.file),
                        rightFileStart |-> suggestion.startLine,
                        rightFileEnd |-> suggestion.endLine]>>]

\* buildCommentSignature(buildSuggestionSignaturePayload(...))
signatureOfPayload(payload) ==
  buildCommentSignature(payload.content, payload.filePath, payload.startLine, payload.endLine)

\* variant without the dry-run branch (C24 does not hold of it)
renderedPost_NoDryRunBranch(suggestion, rendered, signatures) ==
  IF rendered = <<>> THEN <<>>
  ELSE unlessPosted(
         suggestionThread(suggestion, rendered[1].body),
         signatureOfPayload(
           buildSuggestionSignaturePayload(
             [suggestion EXCEPT !.replacement = rendered[1].sanitizedReplacement],
             rendered[1].body)),
         signatures)

\* the loop body of postSuggestions once the suggestion is rendered
renderedPost(suggestion, rendered, signatures) ==
  IF rendered = <<>> \/ options.dryRun THEN <<>>
  ELSE unlessPosted(
         suggestionThread(suggestion, rendered[1].body),
         signatureOfPayload(
           buildSuggestionSignaturePayload(
             [suggestion EXCEPT !.replacement = rendered[1].sanitizedReplacement],
             rendered[1].body)),
         signatures)

\* one iteration of the loop of postSuggestions up to createThread: <<>> when the
\* suggestion is skipped, else the thread to create and its signature
suggestionPost(suggestion, signatures) ==
  IF shouldIgnoreFile(suggestion.file, options.ignoreFiles) THEN <<>>
  ELSE renderedPost(suggestion, renderSuggestionComment(suggestion), signatures)

\* postOverallComment from commentText on
overallPostOf(commentText, signatures, reviewedSourceSha) ==
  IF options.dryRun \/ ~ repositoryId THEN <<>>
  ELSE unlessPosted([content |-> withReviewHead(commentText, reviewedSourceSha),
                     threadContext |-> <<>>],
                    buildCommentSignature(<<commentText>>, <<>>, <<>>, <<>>),
                    signatures)

\* postOverallComment up to createThread: <<>> when nothing is posted
overallPost(rev, signatures, reviewedSourceSha) ==
  IF ~ options.prId THEN <<>>
  ELSE overallPostOf(overallCommentText(rev), signatures, reviewedSourceSha)

\* createThread succeeds for post (when there is one) and the signature is recorded
CreateAndRecord(post) ==
  IF post = <<>>
  THEN UNCHANGED <<threads, existingCommentSignatures>>
  ELSE /\ threads' = hostCreateThread(post[1].thread)
       /\ existingCommentSignatures' =
            recordSignature(existingCommentSignatures, post[1].signature)

\* the result of prefetchExistingFeedback, and findLatestReviewedSha of its summaries
Prefetched(existing, attempted) ==
  /\ preFetchedSignatures' = IF attempted THEN <<existing.signatures>> ELSE <<>>
  /\ previousReviewSha' = findLatestReviewedSha(existing.summaries)

\* the signatures preparePostingContext returns
postingSignatures(existing, posting) ==
  IF ~ posting THEN preFetchedSignatures
  ELSE IF preFetchedSignatures # <<>>
       THEN <<preFetchedSignatures[1] \cup existing.signatures>>
       ELSE <<existing.signatures>>

PostingContext(signatures) ==
  /\ existingCommentSignatures' = signatures
  /\ startSigs' = IF signatures = <<>> THEN {} ELSE signatures[1]

\* a run begins: prefetchExistingFeedback and findLatestReviewedSha
PrefetchExistingFeedback ==
  /\ pc \in {"idle", "done"}
  /\ runNo < MaxRuns
  /\ runNo' = runNo + 1
  /\ lastRun' = IF pc = "done"
                THEN <<[modelReview |-> modelReview, posted |-> PostedSuccessfully]>>
                ELSE <<>>
  /\ \E ok \in BOOLEAN :
        /\ ok => (options.prId /\ options.repositoryId)
        /\ Prefetched(fetchExistingCommentSignatures(threads, ok),
                      options.prId /\ options.repositoryId)
        /\ fetched' = ok
  /\ existingCommentSignatures' = <<>>
  /\ repositoryId' = FALSE
  /\ diffInfo' = NoDiff
  /\ modelReview' = <<>>
  /\ filteredReview' = <<>>
  /\ idx' = 1
  /\ exitCode' = 0
  /\ modelCalls' = 0
  /\ report' = "none"
  /\ startSigs' = {}
  /\ pc' = "loadDiff"
  /\ UNCHANGED <<sanVars, fnVars, options, threads, history>>

\* loadDiff and the two short-circuits that follow it (index.ts 336-355)
LoadDiff ==
  /\ pc = "loadDiff"
  /\ \E present \in BOOLEAN :
        LET loaded == gitDiff(previousReviewSha, present)
        IN  /\ diffInfo' = loaded
            /\ IF Len(loaded.files) = 0
               THEN /\ pc' = "done"
                    /\ report' = IF loaded.baseSha # <<>> THEN "noChangesSince"
                                 ELSE "emptyDiff"
               ELSE IF Len(filterFileDiffs(loaded.files, options.ignoreFiles)) = 0
               THEN pc' = "done" /\ report' = "allIgnored"
               ELSE pc' = "review" /\ report' = report
  /\ UNCHANGED <<sanVars, fnVars, options, threads, history, runNo, lastRun, previousReviewSha,
                 preFetchedSignatures, existingCommentSignatures, repositoryId, modelReview,
                 filteredReview, idx, exitCode, modelCalls, fetched, startSigs>>

\* git fails: loadDiff throws, main catches and sets the exit code
LoadDiffFails ==
  /\ pc = "loadDiff"
  /\ pc' = "done"
  /\ exitCode' = 1
  /\ report' = "failed"
  /\ UNCHANGED <<sanVars, fnVars, options, threads, history, runNo, lastRun, previousReviewSha,
                 preFetchedSignatures, existingCommentSignatures, repositoryId, diffInfo,
                 modelReview, filteredReview, idx, modelCalls, fetched, startSigs>>

\* obtainReviewJson, parseReview, filterReviewByIgnorePatterns
ObtainReview ==
  /\ pc = "review"
  /\ \E answer \in ReviewPool :
        /\ modelReview' = <<answer>>
        /\ filteredReview' = <<filterReviewByIgnorePatterns(answer, options.ignoreFiles)>>
  /\ modelCalls' = modelCalls + 1
  /\ pc' = "prepare"
  /\ UNCHANGED <<sanVars, fnVars, options, threads, history, runNo, lastRun, previousReviewSha,
                 preFetchedSignatures, existingCommentSignatures, repositoryId, diffInfo,
                 idx, exitCode, report, fetched, startSigs>>

\* the model call fails or its answer does not parse
ObtainReviewFails ==
  /\ pc = "review"
  /\ modelCalls' = modelCalls + 1
  /\ pc' = "done"
  /\ exitCode' = 1
  /\ report' = "failed"
  /\ UNCHANGED <<sanVars, fnVars, options, threads, history, runNo, lastRun, previousReviewSha,
                 preFetchedSignatures, existingCommentSignatures, repositoryId, diffInfo,
                 modelReview, filteredReview, idx, fetched, startSigs>>

\* preparePostingContext; resolved tells whether the repository id is known after
\* resolveRepositoryIdViaRest, ok whether the threads could be listed
PreparePostingContext ==
  /\ pc = "prepare"
  /\ \E ok \in BOOLEAN :
        /\ ok => (~ options.dryRun /\ options.prId)
        /\ PostingContext(postingSignatures(fetchExistingCommentSignatures(threads, ok),
                                            ~ options.dryRun /\ options.prId))
        /\ fetched' = (fetched \/ ok)
  /\ repositoryId' = (options.repositoryId \/ (~ options.dryRun /\ options.prId))
  /\ idx' = 1
  /\ pc' = "suggestions"
  /\ UNCHANGED <<sanVars, fnVars, options, threads, history, runNo, lastRun, previousReviewSha,
                 preFetchedSignatures, diffInfo, modelReview, filteredReview, exitCode, modelCalls,
                 report>>

\* resolveRepositoryIdViaRest throws: the lookup fails or returns no id
PreparePostingContextFails ==
  /\ pc = "prepare"
  /\ ~ options.dryRun /\ options.prId /\ ~ options.repositoryId
  /\ pc' = "done"
  /\ exitCode' = 1
  /\ report' = "failed"
  /\ UNCHANGED <<sanVars, fnVars, options, threads, history, runNo, lastRun, previousReviewSha,
                 preFetchedSignatures, existingCommentSignatures, repositoryId, diffInfo,
                 modelReview, filteredReview, idx, modelCalls, fetched, startSigs>>

\* postSuggestions may enter its loop
PostingSuggestions ==
  /\ options.prId
  /\ Len(filteredReview[1].suggestions) > 0
  /\ repositoryId

\* postSuggestions returns: at once, or at the end of its loop
PostSuggestionsReturn ==
  /\ pc = "suggestions"
  /\ ~ PostingSuggestions \/ idx > Len(filteredReview[1].suggestions)
  /\ pc' = "overall"
  /\ UNCHANGED <<sanVars, fnVars, options, threads, history, runNo, lastRun, runLocals>>

\* one iteration of the loop of postSuggestions, createThread succeeding
PostSuggestion ==
  /\ pc = "suggestions"
  /\ PostingSuggestions
  /\ idx <= Len(filteredReview[1].suggestions)
  /\ CreateAndRecord(suggestionPost(filteredReview[1].suggestions[idx],
                                    existingCommentSignatures))
  /\ idx' = idx + 1
  /\ UNCHANGED <<sanVars, fnVars, options, history, runNo, pc, lastRun, previousReviewSha,
                 preFetchedSignatures, repositoryId, diffInfo, modelReview, filteredReview,
                 exitCode, modelCalls, report, fetched, startSigs>>

\* variant in which the signature is recorded although createThread threw (C14 does
\* not hold of it)
PostSuggestionFails_SignatureRecorded ==
  /\ pc = "suggestions"
  /\ PostingSuggestions
  /\ idx <= Len(filteredReview[1].suggestions)
  /\ suggestionPost(filteredReview[1].suggestions[idx], existingCommentSignatures) # <<>>
  /\ existingCommentSignatures' =
       recordSignature(existingCommentSignatures,
                       suggestionPost(filteredReview[1].suggestions[idx],
                                      existingCommentSignatures)[1].signature)
  /\ pc' = "done"
  /\ exitCode' = 1
  /\ report' = "failed"
  /\ UNCHANGED <<sanVars, fnVars, options, threads, history, runNo, lastRun, previousReviewSha,
                 preFetchedSignatures, repositoryId, diffInfo,
                 modelReview, filteredReview, idx, modelCalls, fetched, startSigs>>

\* createThread throws for a suggestion: the run ends there
PostSuggestionFails ==
  /\ pc = "suggestions"
  /\ PostingSuggestions
  /\ idx <= Len(filteredReview[1].suggestions)
  /\ suggestionPost(filteredReview[1].suggestions[idx], existingCommentSignatures) # <<>>
  /\ pc' = "done"
  /\ exitCode' = 1
  /\ report' = "failed"
  /\ UNCHANGED <<sanVars, fnVars, options, threads, history, runNo, lastRun, previousReviewSha,
                 preFetchedSignatures, existingCommentSignatures, repositoryId, diffInfo,
                 modelReview, filteredReview, idx, modelCalls, fetched, startSigs>>

\* postOverallComment, createThread succeeding when it is called; the run completes
PostOverallComment ==
  /\ pc = "overall"
  /\ CreateAndRecord(overallPost(filteredReview[1], existingCommentSignatures,
                                 diffInfo.sourceSha))
  /\ pc' = "done"
  /\ report' = "completed"
  /\ UNCHANGED <<sanVars, fnVars, options, history, runNo, lastRun, previousReviewSha,
                 preFetchedSignatures, repositoryId, diffInfo, modelReview, filteredReview, idx,
                 exitCode, modelCalls, fetched, startSigs>>

\* createThread throws for the overall comment
PostOverallCommentFails ==
  /\ pc = "overall"
  /\ overallPost(filteredReview[1], existingCommentSignatures, diffInfo.sourceSha) # <<>>
  /\ pc' = "done"
  /\ exitCode' = 1
  /\ report' = "failed"
  /\ UNCHANGED <<sanVars, fnVars, options, threads, history, runNo, lastRun, previousReviewSha,
                 preFetchedSignatures, existingCommentSignatures, repositoryId, diffInfo,
                 modelReview, filteredReview, idx, modelCalls, fetched, startSigs>>

\* between two runs a commit is pushed to the source branch (several pushes between
\* the same two runs count as one: no run sees the commits in between)
Push ==
  /\ pc = "done"
  /\ runNo < MaxRuns
  /\ Len(history) <= runNo
  /\ \E t \in Trees : history' = Append(history, t)
  /\ UNCHANGED <<sanVars, fnVars, options, threads, runNo, pc, lastRun, runLocals>>

\* the sanitizer harness at rest
SanQuiet ==
  /\ sPc = "off"
  /\ sIn = SugComma
  /\ sOut = <<>>
  /\ sOut2 = <<>>
  /\ sRendered = <<>>

\* the function harness at rest
FnQuiet ==
  /\ fPc = "off"
  /\ fArgs = <<>>
  /\ fResult = <<>>

\* the pipeline at rest
RunQuiet ==
  /\ options = [prId |-> FALSE, repositoryId |-> FALSE, dryRun |-> TRUE, ignoreFiles |-> <<>>]
  /\ threads = <<>>
  /\ history = <<0>>
  /\ runNo = 0
  /\ pc = "off"
  /\ lastRun = <<>>
  /\ previousReviewSha = <<>>
  /\ preFetchedSignatures = <<>>
  /\ existingCommentSignatures = <<>>
  /\ repositoryId = FALSE
  /\ diffInfo = NoDiff
  /\ modelReview = <<>>
  /\ filteredReview = <<>>
  /\ idx = 1
  /\ exitCode = 0
  /\ modelCalls = 0
  /\ report = "none"
  /\ fetched = FALSE
  /\ startSigs = {}

Init ==
  /\ disk = RunDisk
  /\ SanQuiet
  /\ FnQuiet
  /\ options \in OptionSets
  /\ threads = <<>>
  /\ \E t \in Trees : history = <<t>>
  /\ runNo = 0
  /\ pc = "idle"
  /\ lastRun = <<>>
  /\ previousReviewSha = <<>>
  /\ preFetchedSignatures = <<>>
  /\ existingCommentSignatures = <<>>
  /\ repositoryId = FALSE
  /\ diffInfo = NoDiff
  /\ modelReview = <<>>
  /\ filteredReview = <<>>
  /\ idx = 1
  /\ exitCode = 0
  /\ modelCalls = 0
  /\ report = "none"
  /\ fetched = FALSE
  /\ startSigs = {}

Next ==
  \/ PrefetchExistingFeedback
  \/ LoadDiff
  \/ LoadDiffFails
  \/ ObtainReview
  \/ ObtainReviewFails
  \/ PreparePostingContext
  \/ PreparePostingContextFails
  \/ PostSuggestionsReturn
  \/ PostSuggestion
  \/ PostSuggestionFails
  \/ PostOverallComment
  \/ PostOverallCommentFails
  \/ Push

Spec == Init /\ [][Next]_vars

(***************************************************************************)
(* The sanitizer applied to every replacement text of at most MaxRepLen    *)
(* characters, against every line range of a few working trees.            *)
(***************************************************************************)
RepAlphabet == {"a", " ", ",", "\n", "*", "\r"}

RECURSIVE StringsUpTo(_, _)
StringsUpTo(alphabet, n) ==
  IF n = 0 THEN {<<>>}
  ELSE LET shorter == StringsUpTo(alphabet, n - 1)
       IN  shorter \cup {Append(s, c) : s \in shorter, c \in alphabet}

\* the file every harness suggestion names
SanFile == <<"a">>

\* contents of SanFile in the working trees tried: absent, or one of these texts
SanContents ==
  { <<"a", " ", "a", "\n", " ", "*">>,      \* a line with an inner blank, an indented comment line
    <<"a">>,                                \* one line, no final line break
    <<"*", "\r", "\n", "\r", "\n", ",">> }  \* CRLF file: a comment line, a blank line, a line
SanDisks == {SanFile :> <<>>} \cup {SanFile :> <<c>> : c \in SanContents}

\* longer replacement texts tried besides the exhaustive ones: an original line echoed
\* with a doubled blank, new text followed by an echo of an original line, and a line
\* that turns into an original line once another original line is stripped from it,
\* followed by a new line, and an original comment line written twice, the second time
\* with a blank at its end, followed by an echo of an original line
SanExamples ==
  { <<"a", " ", " ", "a", ",">>,
    <<",", " ", "a", " ", "a">>,
    <<"a", " ", "*", " ", "a", "\n", ",">>,
    <<"*", "\n", "*", " ", "\n", "a", " ", "a">> }

SanReplacements == StringsUpTo(RepAlphabet, MaxRepLen) \cup SanExamples

SanInit ==
  /\ disk \in SanDisks
  /\ sPc = "input"
  /\ \E r \in SanReplacements, sl \in 0..MaxLine, el \in 0..MaxLine :
        sIn = [file |-> SanFile, startLine |-> sl, endLine |-> el,
               comment |-> <<"c">>, replacement |-> r, originFinding |-> <<>>]
  /\ sOut = <<>>
  /\ sOut2 = <<>>
  /\ sRendered = <<>>
  /\ RunQuiet
  /\ FnQuiet

\* sanitizeSuggestionReplacement(sIn)
Sanitize ==
  /\ sPc = "input"
  /\ sOut' = sanitizeSuggestionReplacement(sIn)
  /\ sPc' = "sanitized"
  /\ UNCHANGED <<disk, sIn, sOut2, sRendered, runVars, fnVars>>

\* sanitizeSuggestionReplacement applied to its own output, same file and range
Resanitize ==
  /\ sPc = "sanitized"
  /\ sOut2' = sanitizeSuggestionReplacement([sIn EXCEPT !.replacement = sOut])
  /\ sPc' = "resanitized"
  /\ UNCHANGED <<disk, sIn, sOut, sRendered, runVars, fnVars>>

\* renderSuggestionComment(sIn)
Render ==
  /\ sPc = "resanitized"
  /\ sRendered' = renderSuggestionComment(sIn)
  /\ sPc' = "rendered"
  /\ UNCHANGED <<disk, sIn, sOut, sOut2, runVars, fnVars>>

SanNext == Sanitize \/ Resanitize \/ Render

SpecSan == SanInit /\ [][SanNext]_vars

(***************************************************************************)
(* Properties of the runs (specification Spec).                            *)
(***************************************************************************)
\* the threads the current run created
CreatedNow == {i \in 1..Len(threads) : threads[i].run = runNo}

\* the suggestion threads among them
SuggestionsCreatedNow == {i \in CreatedNow : threads[i].threadContext # <<>>}

\* the signature a later listing of the threads computes for thread i
SignatureOnHost(i) == commentSignature(threads[i], threads[i].comments[1])

\* the current run follows a run that posted, the model has returned the same review
\* again, and the threads were listed in the current run
C1_SecondRun ==
  /\ lastRun # <<>>
  /\ lastRun[1].posted
  /\ modelReview # <<>>
  /\ modelReview = lastRun[1].modelReview
  /\ fetched

C2_InRunDeduplication ==
  /\ \A i \in SuggestionsCreatedNow : \A j \in SuggestionsCreatedNow :
        i # j => SignatureOnHost(i) # SignatureOnHost(j)
  /\ \A i \in SuggestionsCreatedNow : SignatureOnHost(i)[1] \notin startSigs
  /\ \A i \in SuggestionsCreatedNow :
        hasSignature(existingCommentSignatures, SignatureOnHost(i))

\* C2 witness: a run has gone through a review that holds the same suggestion twice
\* and has created one thread for it
C2_Witness ==
  /\ pc = "overall"
  /\ modelReview = <<ReviewFull>>
  /\ filteredReview[1].suggestions[3] = filteredReview[1].suggestions[4]
  /\ idx > 4
  /\ Cardinality({i \in SuggestionsCreatedNow :
                    threads[i].threadContext[1].rightFileStart = 1
                    /\ threads[i].threadContext[1].filePath = <<"/">> \o FileA}) = 1

\* C4: a run that finds a last-reviewed marker equal to its source SHA calls the model
\* zero times, creates no thread and ends reporting that there are no changes.
C4_IncrementalShortCircuit ==
  (/\ pc \notin {"idle", "loadDiff"}
   /\ diffInfo.sourceSha # <<>>
   /\ previousReviewSha = diffInfo.sourceSha)
  => /\ modelCalls = 0
     /\ CreatedNow = {}
     /\ (pc = "done" /\ exitCode = 0) => report \in {"noChangesSince", "emptyDiff"}


\* loadDiff has returned in the current run and left no work: the diff is empty, or
\* every file of it matches an ignore pattern
NoWork ==
  /\ pc \notin {"off", "idle", "loadDiff"}
  /\ diffInfo.sourceSha # <<>>
  /\ \A k \in 1..Len(diffInfo.files) : shouldIgnoreFile(diffInfo.files[k], options.ignoreFiles)

\* C15: a run whose diff is empty or holds ignored files only has ended without a model
\* call, without creating a thread and without a failing exit status.
C15_NoWorkShortCircuit ==
  NoWork =>
    /\ pc = "done"
    /\ modelCalls = 0
    /\ CreatedNow = {}
    /\ exitCode = 0

\* an incremental diff that is empty, on a pull request that has threads
C15_Witness ==
  /\ NoWork
  /\ diffInfo.baseSha # <<>>
  /\ Len(diffInfo.files) = 0
  /\ threads # <<>>
  /\ modelCalls = 0 /\ exitCode = 0

\* the run ended because createThread threw for the suggestion at idx
FailedAtSuggestion ==
  /\ pc = "done" /\ report = "failed"
  /\ repositoryId
  /\ filteredReview # <<>>
  /\ idx <= Len(filteredReview[1].suggestions)

\* the signatures added to the deduplication set since preparePostingContext
AddedSignatures ==
  IF existingCommentSignatures = <<>> THEN {} ELSE existingCommentSignatures[1] \ startSigs

\* C14: when createThread fails for the suggestion at idx, the run ends with a failing
\* exit status, has posted no overall comment and nothing for a later suggestion, keeps
\* the threads and signatures of the suggestions before it, and has not recorded the
\* signature of the failed suggestion.
C14_FailFastPosting ==
  FailedAtSuggestion =>
    /\ exitCode # 0
    /\ \A i \in CreatedNow : threads[i].threadContext # <<>>
    /\ \A i \in CreatedNow :
          \E k \in 1..(idx - 1) :
             /\ renderSuggestionComment(filteredReview[1].suggestions[k]) # <<>>
             /\ threads[i].comments[1].content =
                  renderSuggestionComment(filteredReview[1].suggestions[k])[1].body
             /\ threads[i].threadContext[1].rightFileStart =
                  filteredReview[1].suggestions[k].startLine
    /\ Cardinality(CreatedNow) = Cardinality(AddedSignatures)
    /\ \A i \in CreatedNow : SignatureOnHost(i)[1] \in AddedSignatures
    /\ suggestionPost(filteredReview[1].suggestions[idx], existingCommentSignatures) # <<>>

C14_Witness ==
  /\ FailedAtSuggestion
  /\ idx > 1 /\ idx < Len(filteredReview[1].suggestions)
  /\ CreatedNow # {}
  /\ runNo = MaxRuns

(***************************************************************************)
(* Properties of the sanitizer and the renderer (specification SpecSan).   *)
(***************************************************************************)
\* number of lines of a file's text: one more than its line feeds
LineCount(content) == 1 + Cardinality({i \in 1..Len(content) : content[i] = "\n"})

\* the original range of sIn cannot be read
SegmentUnavailable ==
  \/ disk[sIn.file] = <<>>
  \/ sIn.startLine < 1
  \/ sIn.endLine < sIn.startLine
  \/ sIn.startLine > LineCount(disk[sIn.file][1])

\* the trimmed lines of the original range of sIn (none when it cannot be read)
SegmentLines ==
  LET seg == readOriginalSegment(sIn.file, sIn.startLine, sIn.endLine)
  IN  IF seg = <<>> THEN {}
      ELSE {trim(l) : l \in {splitFileLines(seg[1])[i] : i \in 1..Len(splitFileLines(seg[1]))}}

\* the original range is readable and holds text
SegmentCompared == \E l \in SegmentLines : l # <<>>

LinesOf(text) == {splitOn(text, "\n")[i] : i \in 1..Len(splitOn(text, "\n"))}

\* the replacement of sIn, line endings normalized, as a set of lines
ReplacementLines == LinesOf(normalizeLineEndings(sIn.replacement))

\* text holds fragment preceded by the start of the line or a blank and followed by a
\* blank, the end of the line, or one of , ; )
BoundedOccurrence(text, fragment) ==
  \E i \in 1..Len(text) :
     /\ matchesAt(text, i, fragment)
     /\ (i = 1 \/ text[i - 1] \in WhiteSpace)
     /\ (i + Len(fragment) > Len(text)
         \/ text[i + Len(fragment)] \in (WhiteSpace \cup {",", ";", ")"}))

\* C3: a replacement made only of lines identical to lines of the readable original
\* range renders to null.
C3_NullOnPureDuplication ==
  (/\ sPc = "rendered"
   /\ SegmentCompared
   /\ trim(sIn.replacement) # <<>>
   /\ \A l \in LinesOf(trimEnd(normalizeLineEndings(sIn.replacement))) : trim(l) \in SegmentLines
   /\ \A l \in LinesOf(trimEnd(normalizeLineEndings(sIn.replacement))) : l = trim(l))
  => sRendered = <<>>

\* C5: sanitizing the output of sanitize again, for the same range of the same file,
\* returns that output unchanged.
C5_SanitizeIdempotent ==
  sPc \in {"resanitized", "rendered"} => sOut2 = sOut

\* C6: when the original range is readable and a replacement line survives, no line of
\* the output equals, trimmed, a non-comment line of the original range; and a
\* replacement made of the (comment-free) range followed by one new line sanitizes to
\* that new line.
C6_Survives ==
  LET normalized == trimEnd(normalizeLineEndings(sIn.replacement))
      seg == readOriginalSegment(sIn.file, sIn.startLine, sIn.endLine)
      trimmedOriginal == trim(normalizeLineEndings(seg[1]))
  IN  /\ normalized # <<>>
      /\ SegmentCompared
      /\ survivingLines(stripOriginalSuffix(normalized, trimmedOriginal), trimmedOriginal) # <<>>

C6_NewLine(line) ==
  /\ line # <<>>
  /\ \A i \in 1..Len(line) : line[i] \notin WhiteSpace
  /\ \A o \in SegmentLines : o # <<>> => ~ includes(line, o)

C6_WholeLineDuplicateRemoval ==
  (sPc # "input" /\ C6_Survives) =>
    /\ \A l \in LinesOf(sOut) :
          \A o \in SegmentLines : (o # <<>> /\ ~ isCommentLine(o)) => trim(l) # o
    /\ LET seg == normalizeLineEndings(
                     readOriginalSegment(sIn.file, sIn.startLine, sIn.endLine)[1])
           rep == normalizeLineEndings(sIn.replacement)
           newLine == SubSeq(rep, Len(seg) + 2, Len(rep))
       IN  (/\ Len(rep) > Len(seg) + 1
            /\ SubSeq(rep, 1, Len(seg)) = seg
            /\ rep[Len(seg) + 1] = "\n"
            /\ \A o \in SegmentLines : o # <<>> /\ ~ isCommentLine(o)
            /\ C6_NewLine(newLine))
           => sOut = newLine

\* C6 witness: the one-line file's line followed by a new line sanitizes to the new line
C6_Witness ==
  /\ sPc = "sanitized"
  /\ disk[SanFile] = <<<<"a">>>>
  /\ sIn.startLine = 1 /\ sIn.endLine = 1
  /\ sIn.replacement = <<"a", "\n", ",">>
  /\ sOut = <<",">>

\* C7: no line of the output that is not wholly an original line holds the trimmed text
\* of a non-empty original line as a bounded fragment.
C7_FragmentStripping ==
  (sPc # "input" /\ SegmentCompared) =>
    \A l \in LinesOf(sOut) :
       \/ trim(l) \in SegmentLines
       \/ \A o \in SegmentLines : o # <<>> => ~ BoundedOccurrence(l, o)

\* C8: a replacement line whose trimmed text equals that of an original comment line
\* is kept (up to trailing blanks) in the output.
C8_CommentPreservation ==
  (sPc # "input" /\ SegmentCompared) =>
    \A l \in ReplacementLines :
       (trim(l) # <<>> /\ trim(l) \in SegmentLines /\ isCommentLine(trim(l)))
       => \E k \in LinesOf(sOut) : trimEnd(k) = trimEnd(l)

\* the text with every CRLF and every remaining CR turned into LF, read left to right
RECURSIVE C9_LfOnly(_)
C9_LfOnly(text) ==
  IF text = <<>> THEN <<>>
  ELSE IF text[1] = "\r"
       THEN <<"\n">> \o C9_LfOnly(IF Len(text) >= 2 /\ text[2] = "\n"
                                  THEN SubSeq(text, 3, Len(text)) ELSE Tail(text))
       ELSE <<text[1]>> \o C9_LfOnly(Tail(text))

RECURSIVE C9_DropTrailingBlanks(_)
C9_DropTrailingBlanks(text) ==
  IF text # <<>> /\ text[Len(text)] \in WhiteSpace
  THEN C9_DropTrailingBlanks(SubSeq(text, 1, Len(text) - 1))
  ELSE text

\* C9: when the original range cannot be read, sanitize returns the replacement with
\* CRLF and CR turned into LF and trailing blanks removed, nothing else changed.
C9_DegradedSanitization ==
  (sPc # "input" /\ SegmentUnavailable) =>
    sOut = C9_DropTrailingBlanks(C9_LfOnly(sIn.replacement))

\* C9 witness: a range that starts past the end of an existing file, a replacement with
\* a carriage return inside
C9_Witness ==
  /\ sPc = "sanitized"
  /\ disk[sIn.file] # <<>>
  /\ sIn.startLine > LineCount(disk[sIn.file][1])
  /\ sIn.endLine >= sIn.startLine
  /\ \E i \in 1..Len(sIn.replacement) : sIn.replacement[i] = "\r"
  /\ sOut # <<>>
  /\ sOut # sIn.replacement

\* C10: render returns null exactly when sanitize returns the empty text; a rendered
\* suggestion has a non-empty sanitizedReplacement and a body with a suggestion fence;
\* an empty or blank replacement renders to null.
C10_NullIffEmpty ==
  sPc = "rendered" =>
    /\ (sRendered = <<>>) <=> (sOut = <<>>)
    /\ sRendered # <<>> =>
         /\ sRendered[1].sanitizedReplacement # <<>>
         /\ sRendered[1].sanitizedReplacement = sOut
         /\ includes(sRendered[1].body, SuggestionFence \o <<"\n">>)
    /\ (\A i \in 1..Len(sIn.replacement) : sIn.replacement[i] \in WhiteSpace)
         => sRendered = <<>>

\* C10 witness: both outcomes are rendered
C10_Witness ==
  /\ sPc = "rendered"
  /\ sIn.replacement # <<>>
  /\ \A i \in 1..Len(sIn.replacement) : sIn.replacement[i] \in WhiteSpace
  /\ sRendered = <<>>

(***************************************************************************)
(* buildCommentSignature applied to two payloads (specification SpecSig).  *)
(***************************************************************************)
\* the greatest line number tried as startLine or endLine of a payload
MaxSigLine == 2

\* file paths tried, <<>> for an absent one: plain, with a leading slash, with a
\* backslash, and one whose name holds colons and digits
SigPaths ==
  { <<>>, << <<"a">> >>, << <<"/", "a">> >>, << <<"\\", "a">> >>,
    << <<"a", ":", ":", "1", ":", ":", "1">> >> }

\* optional line numbers
SigLines == {<<>>} \cup {<<n>> : n \in 1..MaxSigLine}

\* comment texts tried, none of them blank
SigContents ==
  { <<"x">>, <<" ", "x">>, <<"x", "\n">>, <<"y">>,
    <<"2", ":", ":", "2", ":", ":", "x">> }

SigPayloads ==
  [content : {<<c>> : c \in SigContents}, filePath : SigPaths,
   startLine : SigLines, endLine : SigLines]

SigInit ==
  /\ disk = RunDisk
  /\ SanQuiet
  /\ RunQuiet
  /\ fPc = "input"
  /\ fArgs \in SigPayloads \X SigPayloads
  /\ fResult = <<>>

signatureOf(payload) ==
  buildCommentSignature(payload.content, payload.filePath, payload.startLine, payload.endLine)

\* buildCommentSignature called on each of the two payloads
BuildCommentSignatures ==
  /\ fPc = "input"
  /\ fResult' = <<signatureOf(fArgs[1]), signatureOf(fArgs[2])>>
  /\ fPc' = "returned"
  /\ UNCHANGED <<sanVars, runVars, fArgs>>

SigNext == BuildCommentSignatures

SpecSig == SigInit /\ [][SigNext]_vars

\* the canonical tuple of a payload: the path with forward slashes and one leading
\* slash (empty when absent), startLine or 0, endLine or startLine, the trimmed content
CanonicalTuple(payload) ==
  LET path == IF payload.filePath = <<>> \/ payload.filePath[1] = <<>> THEN <<>>
              ELSE LET slashed == [i \in 1..Len(payload.filePath[1]) |->
                                     IF payload.filePath[1][i] = "\\" THEN "/"
                                     ELSE payload.filePath[1][i]]
                       rest == {i \in 1..Len(slashed) : slashed[i] # "/"}
                   IN  IF rest = {} THEN <<"/">>
                       ELSE <<"/">> \o SubSeq(slashed, MinOf(rest), Len(slashed))
      start == IF payload.startLine = <<>> THEN 0 ELSE payload.startLine[1]
      end == IF payload.endLine = <<>> THEN start ELSE payload.endLine[1]
  IN  <<path, start, end, trim(payload.content[1])>>

\* C11: two payloads with non-blank content get the same signature if and only if
\* their canonical tuples (path, startLine, endLine, trimmed content) agree.
C11_SignatureEquality ==
  fPc = "returned" =>
    /\ fResult[1] # <<>> /\ fResult[2] # <<>>
    /\ (fResult[1] = fResult[2]) <=> (CanonicalTuple(fArgs[1]) = CanonicalTuple(fArgs[2]))

(***************************************************************************)
(* recordThreadSignatures applied to a thread that holds a comment with a  *)
(* marker, and to the same thread without the marker (SpecMarker).         *)
(***************************************************************************)
\* the greatest length of the comment texts tried exhaustively
MaxCommentLen == 2

CommentAlphabet == {"x", " ", "<", "-"}

\* a text that looks like a marker but has too few digits to be one
ShortMarker ==
  <<"<", "!", "-", "-">> \o MarkerKey \o <<"1", "2", "-", "-", ">">>

\* comment texts that hold no marker
MarkerFreeTexts ==
  StringsUpTo(CommentAlphabet, MaxCommentLen) \cup {<<"x", "\n">>, <<"x">> \o ShortMarker}

\* SHAs of MinShaLen to MaxShaLen hexadecimal digits, in lower, upper and mixed case
MarkerShas ==
  { [k \in 1..MinShaLen |-> "a"],
    [k \in 1..MinShaLen |-> "F"],
    <<"0", "1", "2", "3", "4", "5", "6", "7", "8", "9", "a", "B">>,
    [k \in 1..MaxShaLen |-> IF k % 2 = 0 THEN "E" ELSE "7"] }

\* what stands between the text and the marker: nothing, or the blank line
\* postOverallComment puts there
MarkerSeparators == {<<>>, <<"\n", "\n">>}

\* the marker as postOverallComment writes it
markerText(sha) == MarkerOpen \o <<" ">> \o MarkerKey \o <<" ">> \o sha \o <<" ">> \o MarkerClose

\* commentText followed by the marker
markedText(commentText, sep, sha) == commentText \o sep \o markerText(sha)

\* the comments that come before the comment under test in its thread
EarlierComments ==
  { <<>>,
    <<[content |-> <<"y">>, commentType |-> "text", id |-> 1]>>,
    <<[content |-> <<" ">>, commentType |-> "text", id |-> 1]>> }

\* the anchor of the thread: none, or a line of a file
MarkerAnchors ==
  { <<>>, <<[filePath |-> <<"/", "a">>, rightFileStart |-> 1, rightFileEnd |-> 1]>> }

\* the thread of the arguments, its last comment holding text
markerThread(args, text) ==
  [comments |-> Append(args.earlier,
                       [content |-> text, commentType |-> "text",
                        id |-> Len(args.earlier) + 1]),
   threadContext |-> args.threadContext, run |-> 0]

MarkerInit ==
  /\ disk = RunDisk
  /\ SanQuiet
  /\ RunQuiet
  /\ fPc = "input"
  /\ fArgs \in [c : MarkerFreeTexts, sep : MarkerSeparators, sha : MarkerShas,
                earlier : EarlierComments, threadContext : MarkerAnchors]
  /\ fResult = <<>>

\* recordThreadSignatures on the thread whose last comment is c followed by the
\* marker, and on the thread whose last comment is c alone
RecordThreadSignatures ==
  /\ fPc = "input"
  /\ fResult' = [marked |-> recordThreadSignatures(
                              markerThread(fArgs, markedText(fArgs.c, fArgs.sep, fArgs.sha))),
                 plain |-> recordThreadSignatures(markerThread(fArgs, fArgs.c))]
  /\ fPc' = "returned"
  /\ UNCHANGED <<sanVars, runVars, fArgs>>

MarkerNext == RecordThreadSignatures

SpecMarker == MarkerInit /\ [][MarkerNext]_vars

\* the marker ends the raw content of a recorded summary and that summary carries sha
SummaryCarries(feedback, sha) ==
  \E k \in 1..Len(feedback.summaries) :
     /\ Len(feedback.summaries[k].rawContent) > Len(MarkerClose)
     /\ matchesAt(feedback.summaries[k].rawContent,
                  Len(feedback.summaries[k].rawContent) - Len(MarkerClose) + 1, MarkerClose)
     /\ feedback.summaries[k].reviewHeadSha = <<sha>>

C12_SameSignatures == fResult.marked.signatures = fResult.plain.signatures

\* no earlier comment of the thread has text
C12_FirstWithText == \A k \in 1..Len(fArgs.earlier) : trim(fArgs.earlier[k].content) = <<>>

\* C12 as stated: for every marker-free text c, the comment c followed by the marker
\* gets the signature of c alone and the summary recorded for it carries the SHA.
C12_MarkerInvarianceAnyText ==
  fPc = "returned" =>
    /\ C12_SameSignatures
    /\ SummaryCarries(fResult.marked, fArgs.sha)

\* C12 amended: the signatures are the same for every marker-free text c; when c is
\* not blank and no earlier comment of the thread has text, the summary recorded for
\* the thread is that of the comment and carries the SHA as written.
C12_MarkerInvariance ==
  fPc = "returned" =>
    /\ C12_SameSignatures
    /\ (trim(fArgs.c) # <<>> /\ C12_FirstWithText) =>
          /\ fResult.marked.signatures # {}
          /\ SummaryCarries(fResult.marked, fArgs.sha)

C12_Witness ==
  /\ fPc = "returned"
  /\ fArgs.c = <<"x", "\n">>
  /\ fArgs.sep = <<>>
  /\ Len(fArgs.sha) = MaxShaLen
  /\ fArgs.earlier # <<>>
  /\ fArgs.threadContext # <<>>
  /\ SummaryCarries(fResult.marked, fArgs.sha)
  /\ Cardinality(fResult.marked.signatures) = 1

(***************************************************************************)
(* findLatestReviewedSha applied to lists of summaries (SpecLatest).       *)
(***************************************************************************)
\* the greatest number of summaries in a list, and the greatest comment id
MaxSummaries == 3
MaxCommentId == 2

\* the SHAs the markers carry
LatestShas == {[k \in 1..MinShaLen |-> "a"], [k \in 1..MinShaLen |-> "b"],
               [k \in 1..MinShaLen |-> "c"]}

\* a summary, reduced to the two fields findLatestReviewedSha reads
LatestSummaries ==
  [reviewHeadSha : {<<>>} \cup {<<x>> : x \in LatestShas},
   commentId : {<<>>} \cup {<<n>> : n \in 1..MaxCommentId}]

LatestInit ==
  /\ disk = RunDisk
  /\ SanQuiet
  /\ RunQuiet
  /\ fPc = "input"
  /\ \E n \in 0..MaxSummaries : fArgs \in [1..n -> LatestSummaries]
  /\ fResult = <<>>

FindLatestReviewedSha ==
  /\ fPc = "input"
  /\ fResult' = findLatestReviewedSha(fArgs)
  /\ fPc' = "returned"
  /\ UNCHANGED <<sanVars, runVars, fArgs>>

LatestNext == FindLatestReviewedSha

SpecLatest == LatestInit /\ [][LatestNext]_vars

\* the summaries of the arguments that carry a marker
C13_Carrying == {k \in 1..Len(fArgs) : fArgs[k].reviewHeadSha # <<>>}

\* the comment identifier of a summary, an absent one counting as 0
C13_IdOf(k) == IF fArgs[k].commentId = <<>> THEN 0 ELSE fArgs[k].commentId[1]

\* C13: the result is undefined exactly when no summary carries a marker; otherwise it
\* is the SHA of a marker-carrying summary whose comment identifier is the greatest.
C13_LatestReviewedSha ==
  fPc = "returned" =>
    /\ (fResult = <<>>) <=> (C13_Carrying = {})
    /\ C13_Carrying # {} =>
         \E k \in C13_Carrying :
            /\ fResult = fArgs[k].reviewHeadSha
            /\ \A j \in C13_Carrying : C13_IdOf(j) <= C13_IdOf(k)

C13_Witness ==
  /\ fPc = "returned"
  /\ Len(fArgs) = 3
  /\ fArgs[1].reviewHeadSha # <<>> /\ fArgs[1].commentId = <<>>
  /\ fArgs[2].reviewHeadSha = <<>> /\ fArgs[2].commentId = <<2>>
  /\ fArgs[3].reviewHeadSha # <<>> /\ fArgs[3].commentId = <<1>>
  /\ fArgs[3].reviewHeadSha # fArgs[1].reviewHeadSha
  /\ fResult = fArgs[3].reviewHeadSha

(***************************************************************************)
(* parseReview (codex.ts 89-194) applied to validated model output         *)
(* (specification SpecParse).  A suggestion of the payload is              *)
(* [file, start_line, end_line, comment, replacement] with end_line        *)
(* optional; a finding is [file, line, title, details, suggestion].        *)
(***************************************************************************)
\* `${file}:${startLine}:${endLine}:${source.comment}:${source.replacement}`
suggestionKey(file, startLine, endLine, source) ==
  file \o <<":">> \o toDecimal(startLine) \o <<":">> \o toDecimal(endLine) \o <<":">>
       \o source.comment \o <<":">> \o source.replacement

\* the entry pushSuggestion appends; context is <<>> for a top-level suggestion
parsedSuggestion(source, context, endLine) ==
  [file |-> source.file, startLine |-> source.start_line, endLine |-> endLine,
   comment |-> trim(source.comment), replacement |-> trimEnd(source.replacement),
   originFinding |-> IF context = <<>> THEN <<>>
                     ELSE <<[title |-> context[1].title, details |-> context[1].details]>>]

\* pushSuggestion from the test of the key on; acc is [suggestions, seenSuggestions]
pushKeyed(acc, source, context, endLine, key) ==
  IF key \in acc.seenSuggestions THEN acc
  ELSE [suggestions |-> Append(acc.suggestions, parsedSuggestion(source, context, endLine)),
        seenSuggestions |-> acc.seenSuggestions \cup {key}]

pushWithEnd(acc, source, context, endLine) ==
  pushKeyed(acc, source, context, endLine,
            suggestionKey(source.file, source.start_line, endLine, source))

pushSuggestion(acc, source, context) ==
  IF source.file = <<>> THEN acc
  ELSE pushWithEnd(acc, source, context,
                   IF source.end_line # <<>> THEN source.end_line[1]
                   ELSE IF context # <<>> /\ context[1].line # <<>> THEN context[1].line[1]
                   ELSE source.start_line)

\* the context parseReview builds for the suggestion of a finding
findingContext(finding) ==
  <<[file |-> finding.suggestion[1].file, line |-> <<finding.suggestion[1].start_line>>,
     title |-> finding.title, details |-> finding.details]>>

\* the loop over parsed.suggestions, from index k on
RECURSIVE pushTopLevel(_, _, _)
pushTopLevel(acc, suggestions, k) ==
  IF k > Len(suggestions) THEN acc
  ELSE pushTopLevel(pushSuggestion(acc, suggestions[k], <<>>), suggestions, k + 1)

\* the suggestions pushed while parsed.findings is mapped, from index k on
RECURSIVE pushFindings(_, _, _)
pushFindings(acc, findings, k) ==
  IF k > Len(findings) THEN acc
  ELSE pushFindings(IF findings[k].suggestion # <<>>
                    THEN pushSuggestion(acc, findings[k].suggestion[1],
                                        findingContext(findings[k]))
                    ELSE acc,
                    findings, k + 1)

parseReview(parsed) ==
  [summary |-> trim(parsed.summary),
   findings |-> parsed.findings,
   suggestions |->
     pushFindings(pushTopLevel([suggestions |-> <<>>, seenSuggestions |-> {}],
                               parsed.suggestions, 1),
                  parsed.findings, 1).suggestions]

\* the greatest number of top-level suggestions, and of findings, in a payload
MaxSuggestions == 2
MaxFindings == 1

\* suggestions of the payload: an empty file name, an absent end line, a comment and a
\* replacement with and without trailing white space
ParseSources ==
  [file : {<<>>, FileA}, start_line : {1}, end_line : {<<>>, <<1>>},
   comment : {<<"c">>, <<"c", " ">>}, replacement : {<<"y">>, <<"y", "\n">>}]

ParseFindings ==
  [file : {<<FileA>>}, line : {<<1>>}, title : {<<"t">>}, details : {<<>>},
   suggestion : {<<>>} \cup {<<x>> : x \in ParseSources}]

ParseInit ==
  /\ disk = RunDisk
  /\ SanQuiet
  /\ RunQuiet
  /\ fPc = "input"
  /\ \E n \in 0..MaxSuggestions, m \in 0..MaxFindings :
        fArgs \in [summary : {<<" ", "s">>}, findings : [1..m -> ParseFindings],
                   suggestions : [1..n -> ParseSources]]
  /\ fResult = <<>>

ParseReview ==
  /\ fPc = "input"
  /\ fResult' = parseReview(fArgs)
  /\ fPc' = "returned"
  /\ UNCHANGED <<sanVars, runVars, fArgs>>

ParseNext == ParseReview

SpecParse == ParseInit /\ [][ParseNext]_vars

\* the five fields by which suggestions are told apart
C16_Fields(e) == <<e.file, e.startLine, e.endLine, e.comment, e.replacement>>

\* C16: no two returned suggestions have the same file, startLine, endLine, comment and
\* replacement, and the entry whose fields are those of a top-level suggestion has no
\* originFinding.
C16_ParseTimeDeduplication ==
  fPc = "returned" =>
    /\ \A i \in 1..Len(fResult.suggestions) : \A j \in 1..Len(fResult.suggestions) :
          i # j => C16_Fields(fResult.suggestions[i]) # C16_Fields(fResult.suggestions[j])
    /\ \A k \in 1..Len(fArgs.suggestions) :
          fArgs.suggestions[k].file # <<>> =>
            \E i \in 1..Len(fResult.suggestions) :
               /\ fResult.suggestions[i].file = fArgs.suggestions[k].file
               /\ fResult.suggestions[i].startLine = fArgs.suggestions[k].start_line
               /\ fResult.suggestions[i].comment = trim(fArgs.suggestions[k].comment)
               /\ fResult.suggestions[i].replacement = trimEnd(fArgs.suggestions[k].replacement)
               /\ fResult.suggestions[i].originFinding = <<>>

(***************************************************************************)
(* parseUnifiedDiff (git.ts 262-301) applied to diff texts (SpecDiff).     *)
(* A FileDiff is [path, diff]; the result is [ok, files], ok being FALSE   *)
(* when the function throws.                                               *)
(***************************************************************************)
DiffHeader == <<"d", "i", "f", "f", " ", "-", "-", "g", "i", "t", " ">>
TargetMarker == <<"+", "+", "+", " ", "b", "/">>
UnknownPath == <<"u", "n", "k", "n", "o", "w", "n">>

\* flushCurrent; currentPath is <<>> while undefined, else <<path>>
flushCurrent(st) ==
  IF st.currentPath # <<>> /\ st.currentPath[1] # <<>> /\ Len(st.currentLines) > 0
  THEN [files |-> Append(st.files, [path |-> st.currentPath[1],
                                    diff |-> join(st.currentLines, <<"\n">>)]),
        currentLines |-> <<>>, currentPath |-> st.currentPath]
  ELSE st

\* variant that takes the second path token of the header (C18 does not hold of it)
headerPath_SecondToken(parts) ==
  IF Len(parts) >= 4
  THEN (IF startsWith(parts[4], <<"a", "/">>) THEN SubSeq(parts[4], 3, Len(parts[4]))
        ELSE parts[4])
  ELSE UnknownPath

\* the provisional path of a header line, parts being line.split(" ")
headerPath(parts) ==
  IF Len(parts) >= 4
  THEN (IF startsWith(parts[3], <<"a", "/">>) THEN SubSeq(parts[3], 3, Len(parts[3]))
        ELSE parts[3])
  ELSE UnknownPath

\* the branch taken for a line that starts with "diff --git "; flushed is the state
\* flushCurrent leaves
openSection(flushed, line) ==
  [files |-> flushed.files, currentLines |-> <<line>>,
   currentPath |-> <<headerPath(splitOn(line, " "))>>]

\* the body of the loop for one line
diffLine(st, line) ==
  IF startsWith(line, DiffHeader) THEN openSection(flushCurrent(st), line)
  ELSE [files |-> st.files, currentLines |-> Append(st.currentLines, line),
        currentPath |-> IF startsWith(line, TargetMarker)
                        THEN <<trim(SubSeq(line, Len(TargetMarker) + 1, Len(line)))>>
                        ELSE st.currentPath]

\* the loop over the lines, from index k on
RECURSIVE diffLines(_, _, _)
diffLines(st, lines, k) ==
  IF k > Len(lines) THEN st ELSE diffLines(diffLine(st, lines[k]), lines, k + 1)

\* the files after the last flushCurrent
parsedFiles(diffText) ==
  flushCurrent(diffLines([files |-> <<>>, currentLines |-> <<>>, currentPath |-> <<>>],
                         splitFileLines(diffText), 1)).files

\* the return or the throw that ends parseUnifiedDiff
nonEmptyOrThrow(files) ==
  IF Len(files) = 0 THEN [ok |-> FALSE, files |-> <<>>] ELSE [ok |-> TRUE, files |-> files]

\* variant that returns the list even when it is empty (C17 does not hold of it)
parseUnifiedDiff_NoThrow(diffText) == [ok |-> TRUE, files |-> parsedFiles(diffText)]

parseUnifiedDiff(diffText) == nonEmptyOrThrow(parsedFiles(diffText))

\* the greatest number of lines in a diff text
MaxDiffLines == 3

\* the lines the diff texts are made of: headers (plain, of a rename, with an empty
\* first path, with one path only), target markers (plain, without a path, with blanks
\* around the path), an added line, an empty line, a source marker, and a context line
\* that holds the text of a header
DiffLinePool ==
  { <<"d", "i", "f", "f", " ", "-", "-", "g", "i", "t", " ", "a", "/", "x", " ", "b", "/", "x">>,
    <<"d", "i", "f", "f", " ", "-", "-", "g", "i", "t", " ", "a", "/", "x", " ", "b", "/", "y">>,
    <<"d", "i", "f", "f", " ", "-", "-", "g", "i", "t", " ", "a", "/", " ", "b", "/", "x">>,
    <<"d", "i", "f", "f", " ", "-", "-", "g", "i", "t", " ", "x">>,
    <<"+", "+", "+", " ", "b", "/", "y">>,
    <<"+", "+", "+", " ", "b", "/">>,
    <<"+", "+", "+", " ", "b", "/", " ", "z", " ">>,
    <<"+", "a">>,
    <<>>,
    <<"-", "-", "-", " ", "a", "/", "x">>,
    <<" ", "d", "i", "f", "f", " ", "-", "-", "g", "i", "t", " ", "a", "/", "x", " ", "b", "/", "x">> }

\* the line breaks of a diff text
DiffLineBreaks == {<<"\n">>, <<"\r", "\n">>}

DiffInit ==
  /\ disk = RunDisk
  /\ SanQuiet
  /\ RunQuiet
  /\ fPc = "input"
  /\ \E n \in 0..MaxDiffLines, br \in DiffLineBreaks :
        \E lines \in [1..n -> DiffLinePool] : fArgs = join(lines, br)
  /\ fResult = <<>>

ParseUnifiedDiff ==
  /\ fPc = "input"
  /\ fResult' = parseUnifiedDiff(fArgs)
  /\ fPc' = "returned"
  /\ UNCHANGED <<sanVars, runVars, fArgs>>

DiffNext == ParseUnifiedDiff

SpecDiff == DiffInit /\ [][DiffNext]_vars

\* the lines of the text under test, read independently of the parser: a line ends at
\* a line feed, and a carriage return before the line feed is not part of it
C17_Lines ==
  LET ends == {i \in 1..Len(fArgs) : fArgs[i] = "\n"} \cup {Len(fArgs) + 1}
      from(e) == IF \E d \in ends : d < e
                 THEN (CHOOSE d \in ends : d < e /\ \A x \in ends : x < e => x <= d) + 1
                 ELSE 1
      upto(e) == IF e <= Len(fArgs) /\ e > 1 /\ fArgs[e - 1] = "\r" /\ e - 1 >= from(e)
                 THEN e - 2 ELSE e - 1
      nth(k) == CHOOSE e \in ends : Cardinality({d \in ends : d < e}) = k - 1
  IN  [k \in 1..Cardinality(ends) |-> SubSeq(fArgs, from(nth(k)), upto(nth(k)))]

C17_IsHeader(line) == startsWith(line, DiffHeader)
C17_IsTarget(line) == startsWith(line, TargetMarker)

C18_SectionStarts == {k \in 1..Len(C17_Lines) : k = 1 \/ C17_IsHeader(C17_Lines[k])}
C18_SectionEnd(k) ==
  LET later == {j \in C18_SectionStarts : j > k}
  IN  IF later = {} THEN Len(C17_Lines) ELSE MinOf(later) - 1
C18_SectionText(k) ==
  join([i \in 1..(C18_SectionEnd(k) - k + 1) |-> C17_Lines[k + i - 1]], <<"\n">>)

\* the target marker lines of the section, and the path one of them gives
C18_Targets(k) == {j \in k..C18_SectionEnd(k) : C17_IsTarget(C17_Lines[j])}
C18_TargetPath(j) == trim(SubSeq(C17_Lines[j], Len(TargetMarker) + 1, Len(C17_Lines[j])))

\* the words of a line, a word ending at each blank
C18_Words(line) ==
  LET cuts == {i \in 1..Len(line) : line[i] = " "} \cup {0, Len(line) + 1}
      nth(k) == CHOOSE e \in cuts : Cardinality({d \in cuts : d < e}) = k - 1
  IN  [k \in 1..(Cardinality(cuts) - 1) |-> SubSeq(line, nth(k) + 1, nth(k + 1) - 1)]
C18_StripA(token) ==
  IF Len(token) >= 2 /\ token[1] = "a" /\ token[2] = "/" THEN SubSeq(token, 3, Len(token))
  ELSE token

\* C18 as stated: a record's path is the path of a target marker line of its section
\* when the section has one, and otherwise the header's second path token (the fourth
\* word of the header), stripped of an a/ prefix.
C18_PathSecondToken ==
  (fPc = "returned" /\ fResult.ok) =>
    \A i \in 1..Len(fResult.files) :
      \E k \in C18_SectionStarts :
        /\ fResult.files[i].diff = C18_SectionText(k)
        /\ C18_Targets(k) # {} =>
              \E j \in C18_Targets(k) : fResult.files[i].path = C18_TargetPath(j)
        /\ (C18_Targets(k) = {} /\ Len(C18_Words(C17_Lines[k])) >= 4) =>
              fResult.files[i].path = C18_StripA(C18_Words(C17_Lines[k])[4])

\* the path of the section that starts at line k: <<p>>, or <<>> when it has none
C18_ResolvedPath(k) ==
  IF C18_Targets(k) # {}
  THEN <<C18_TargetPath(CHOOSE j \in C18_Targets(k) : \A x \in C18_Targets(k) : x <= j)>>
  ELSE IF ~ C17_IsHeader(C17_Lines[k]) THEN <<>>
  ELSE IF Len(C18_Words(C17_Lines[k])) >= 4 THEN <<C18_StripA(C18_Words(C17_Lines[k])[3])>>
  ELSE <<UnknownPath>>

\* C18, amended: a record's path is the trimmed text after "+++ b/" of the last line of
\* its section that begins with "+++ b/" when the section has such a line; otherwise it
\* is the header's first path token (the third word of the header), stripped of an a/
\* prefix, or "unknown" when the header has fewer than four words.
C18_PathResolution ==
  (fPc = "returned" /\ fResult.ok) =>
    \A i \in 1..Len(fResult.files) :
      \E k \in C18_SectionStarts :
        /\ fResult.files[i].diff = C18_SectionText(k)
        /\ <<fResult.files[i].path>> = C18_ResolvedPath(k)

\* a rename section without a target marker, whose record carries the header's first
\* path, followed by a section whose record carries the trimmed path of its marker
C18_Witness ==
  /\ fPc = "returned"
  /\ fResult.ok
  /\ Len(fResult.files) = 2
  /\ fResult.files[1].diff = <<"d", "i", "f", "f", " ", "-", "-", "g", "i", "t", " ", "a", "/", "x", " ", "b", "/", "y">>
  /\ fResult.files[1].path = <<"x">>
  /\ C18_Targets(2) # {}
  /\ fResult.files[2].path = <<"z">>

\* the header lines of the text under test, and the k-th of them
C19_Headers == {k \in 1..Len(C17_Lines) : C17_IsHeader(C17_Lines[k])}
C19_Header(n) == CHOOSE k \in C19_Headers : Cardinality({j \in C19_Headers : j < k}) = n - 1

\* C19: for a text with a header line, parseUnifiedDiff returns exactly one record per
\* header line, in the order of the headers, and the diff of each record is its header
\* line followed by every line up to the next header.
C19_PartitionAndOrder ==
  (fPc = "returned" /\ C19_Headers # {}) =>
    /\ fResult.ok
    /\ Len(fResult.files) = Cardinality(C19_Headers)
    /\ \A n \in 1..Len(fResult.files) :
          n <= Cardinality(C19_Headers) =>
            fResult.files[n].diff = C18_SectionText(C19_Header(n))

(***************************************************************************)
(* truncateFiles (git.ts 303-331) applied to file lists and budgets        *)
(* (SpecBudget).  The result is [ok, files], ok being FALSE when the       *)
(* function throws.                                                        *)
(***************************************************************************)
TruncationNotice == <<"\n", "[", ".", ".", ".", " ", "d", "i", "f", "f", " ", "t", "r", "u", "n", "c", "a", "t", "e", "d", " ", ".", ".", ".", "]">>

\* files.slice(0, maxFiles), maxFiles not negative
sliceFiles(files, maxFiles) ==
  SubSeq(files, 1, IF maxFiles < Len(files) THEN maxFiles ELSE Len(files))

\* trimmed.reduce((acc, file) => acc + file.diff.length, 0), from index k on
RECURSIVE totalCharsFrom(_, _)
totalCharsFrom(trimmed, k) ==
  IF k > Len(trimmed) THEN 0 ELSE Len(trimmed[k].diff) + totalCharsFrom(trimmed, k + 1)

\* the loop over trimmed, from index k on
RECURSIVE fillBudget(_, _, _, _)
fillBudget(trimmed, k, remaining, result) ==
  IF k > Len(trimmed) \/ remaining <= 0 THEN result
  ELSE IF Len(trimmed[k].diff) <= remaining
       THEN fillBudget(trimmed, k + 1, remaining - Len(trimmed[k].diff),
                       Append(result, trimmed[k]))
       ELSE fillBudget(trimmed, k + 1, 0,
                       Append(result, [path |-> trimmed[k].path,
                                       diff |-> SubSeq(trimmed[k].diff, 1, remaining)
                                                \o TruncationNotice]))

\* variant that returns the kept files whatever the budget (C21 does not hold of it)
budgeted_NoBudget(trimmed, maxChars) == [ok |-> TRUE, files |-> trimmed]

\* the part of truncateFiles after trimmed is known
budgeted(trimmed, maxChars) ==
  IF totalCharsFrom(trimmed, 1) <= maxChars THEN [ok |-> TRUE, files |-> trimmed]
  ELSE nonEmptyOrThrow(fillBudget(trimmed, 1, maxChars, <<>>))

truncateFiles(files, maxFiles, maxChars) == budgeted(sliceFiles(files, maxFiles), maxChars)

\* the greatest number of files in a list, the greatest maxFiles and the greatest
\* maxChars
MaxBudgetFiles == 2
MaxFilesOption == 2
MaxCharsOption == 4

\* the file diffs the lists are made of
BudgetPaths == {<<"x">>, <<"y">>}
BudgetDiffs == {<<>>, <<"a">>, <<"a", "b">>, <<"a", "b", "c">>}
BudgetFiles == [path : BudgetPaths, diff : BudgetDiffs]

BudgetInit ==
  /\ disk = RunDisk
  /\ SanQuiet
  /\ RunQuiet
  /\ fPc = "input"
  /\ \E n \in 0..MaxBudgetFiles :
        \E files \in [1..n -> BudgetFiles], maxFiles \in 0..MaxFilesOption,
           maxChars \in 0..MaxCharsOption :
          fArgs = <<files, maxFiles, maxChars>>
  /\ fResult = <<>>

TruncateFiles ==
  /\ fPc = "input"
  /\ fResult' = truncateFiles(fArgs[1], fArgs[2], fArgs[3])
  /\ fPc' = "returned"
  /\ UNCHANGED <<sanVars, runVars, fArgs>>

BudgetNext == TruncateFiles

SpecBudget == BudgetInit /\ [][BudgetNext]_vars

\* C20: for every file list, maxFiles and maxChars, truncateFiles returns at least one
\* file or throws.
C20_NeverEmpty ==
  (fPc = "returned" /\ fResult.ok) => Len(fResult.files) >= 1

\* the files truncateFiles may keep, the characters of the first n of them, and the
\* budget left for the n-th
C21_First == SubSeq(fArgs[1], 1, IF fArgs[2] < Len(fArgs[1]) THEN fArgs[2] ELSE Len(fArgs[1]))
RECURSIVE C21_Chars(_)
C21_Chars(n) == IF n = 0 THEN 0 ELSE Len(C21_First[n].diff) + C21_Chars(n - 1)
C21_Remaining(n) == fArgs[3] - C21_Chars(n - 1)
C21_Cut(n) ==
  [path |-> C21_First[n].path,
   diff |-> SubSeq(C21_First[n].diff, 1, C21_Remaining(n)) \o TruncationNotice]

\* C21: the result of truncateFiles is a prefix of the first maxFiles files; every file
\* but the last is unchanged; the last is unchanged or is cut to the remaining budget
\* and followed by the marker; without the marker the result has at most maxChars
\* characters; and files that fit the budget are returned unchanged.
C21_BudgetPolicy ==
  (fPc = "returned" /\ fResult.ok) =>
    LET n == Len(fResult.files)
    IN  /\ n <= Len(C21_First)
        /\ \A i \in 1..(n - 1) : fResult.files[i] = C21_First[i]
        /\ n >= 1 =>
             \/ /\ fResult.files[n] = C21_First[n]
                /\ C21_Chars(n) <= fArgs[3]
             \/ /\ C21_Remaining(n) < Len(C21_First[n].diff)
                /\ C21_Remaining(n) >= 0
                /\ fResult.files[n] = C21_Cut(n)
        /\ C21_Chars(Len(C21_First)) <= fArgs[3] => fResult.files = C21_First

\* a whole file followed by a file that is cut to the budget left
C21_Witness ==
  /\ fPc = "returned"
  /\ fResult.ok
  /\ Len(fResult.files) = 2
  /\ fResult.files[1] = fArgs[1][1]
  /\ Len(fArgs[1][1].diff) > 0
  /\ C21_Remaining(2) > 0
  /\ C21_Remaining(2) < Len(C21_First[2].diff)
  /\ fResult.files[2] = C21_Cut(2)

(***************************************************************************)
(* shouldIgnoreFile (ignore.ts 9-20) applied to a path, to the path with a *)
(* leading "./" and to the path written with backslashes (SpecIgnore).     *)
(***************************************************************************)
\* the greatest length of a path
MaxPathLen == 3

PathAlphabet == {".", "/", "\\", "a", "t"}
IgnorePaths == UNION {[1..n -> PathAlphabet] : n \in 0..MaxPathLen}

\* pattern lists of the two kinds globMatches covers, and the empty list
IgnorePatternLists ==
  { <<>>, <<<<"a">>>>, <<<<"t", "/", "*", "*">>>>, <<<<"t", "/", "*", "*">>, <<"a">>>> }

withDotSlash(path) == <<".", "/">> \o path
withBackslashes(path) == [i \in 1..Len(path) |-> IF path[i] = "/" THEN "\\" ELSE path[i]]

IgnoreInit ==
  /\ disk = RunDisk
  /\ SanQuiet
  /\ RunQuiet
  /\ fPc = "input"
  /\ fArgs \in IgnorePaths \X IgnorePatternLists
  /\ fResult = <<>>

ShouldIgnoreFile ==
  /\ fPc = "input"
  /\ fResult' = [plain |-> shouldIgnoreFile(fArgs[1], fArgs[2]),
                 dotted |-> shouldIgnoreFile(withDotSlash(fArgs[1]), fArgs[2]),
                 backslashed |-> shouldIgnoreFile(withBackslashes(fArgs[1]), fArgs[2])]
  /\ fPc' = "returned"
  /\ UNCHANGED <<sanVars, runVars, fArgs>>

IgnoreNext == ShouldIgnoreFile

SpecIgnore == IgnoreInit /\ [][IgnoreNext]_vars

\* C22 as stated: shouldIgnoreFile gives the same answer for a path, for the path with
\* a leading "./" and for the path written with backslashes.
C22_SameAnswerAnyPath ==
  fPc = "returned" =>
    /\ fResult.dotted = fResult.plain
    /\ fResult.backslashed = fResult.plain

\* the path begins with "./" or with ".\"
C22_BeginsDotSlash ==
  Len(fArgs[1]) >= 2 /\ fArgs[1][1] = "." /\ fArgs[1][2] \in {"/", "\\"}

\* other ways to write the path under test
C22_Variants ==
  { withDotSlash(fArgs[1]), withBackslashes(fArgs[1]), backslashesToSlashes(fArgs[1]),
    <<".", "\\">> \o fArgs[1], withBackslashes(withDotSlash(fArgs[1])) }

\* C22, amended: shouldIgnoreFile gives the same answer for a path and for the path
\* written with backslashes; it gives the same answer for the path with a leading "./"
\* when the path does not itself begin with "./" or ".\"; and two ways to write a path
\* that have the same normalized form get the same answer.
C22_IgnoreNormalization ==
  fPc = "returned" =>
    /\ fResult.backslashed = fResult.plain
    /\ ~ C22_BeginsDotSlash => fResult.dotted = fResult.plain
    /\ \A q \in C22_Variants :
          normalizeFilePath(q) = normalizeFilePath(fArgs[1]) =>
            shouldIgnoreFile(q, fArgs[2]) = fResult.plain

\* a path below t/ that is ignored however it is written
C22_Witness ==
  /\ fPc = "returned"
  /\ fArgs[1] = <<"t", "/", "a">>
  /\ fArgs[2] # <<>>
  /\ fResult.plain
  /\ fResult.dotted
  /\ fResult.backslashed

(***************************************************************************)
(* filterDiffsByIgnorePatterns (ignore.ts 22-30), which filterFileDiffs    *)
(* calls, applied to lists of files with their diffs (SpecFilter).  An     *)
(* absent pattern list is the empty list.                                  *)
(***************************************************************************)
\* variant that keeps the ignored files and drops the others (C23 does not hold of it)
filterDiffsByIgnorePatterns_Inverted(diffs, patterns) ==
  LET dropped(diff) == shouldIgnoreFile(diff.path, patterns)
  IN  SelectSeq(diffs, dropped)

filterDiffsByIgnorePatterns(diffs, patterns) ==
  LET kept(diff) == ~ shouldIgnoreFile(diff.path, patterns)
  IN  IF Len(patterns) = 0 THEN diffs ELSE SelectSeq(diffs, kept)

\* the greatest number of files in a list
MaxFilterFiles == 3

FilterPaths == { <<"a">>, <<"t", "/", "a">>, <<".", "/", "t", "/", "a">>, <<"t", "\\", "a">> }
FilterDiffs == { <<>>, <<"+", "x">> }
FilterFiles == [path : FilterPaths, diff : FilterDiffs]

FilterInit ==
  /\ disk = RunDisk
  /\ SanQuiet
  /\ RunQuiet
  /\ fPc = "input"
  /\ \E n \in 0..MaxFilterFiles :
        \E files \in [1..n -> FilterFiles], patterns \in IgnorePatternLists :
          fArgs = <<files, patterns>>
  /\ fResult = <<>>

FilterFileDiffs ==
  /\ fPc = "input"
  /\ fResult' = filterDiffsByIgnorePatterns(fArgs[1], fArgs[2])
  /\ fPc' = "returned"
  /\ UNCHANGED <<sanVars, runVars, fArgs>>

FilterNext == FilterFileDiffs

SpecFilter == FilterInit /\ [][FilterNext]_vars

\* the positions of the files that are not ignored, and the n-th of them
C23_Kept == {i \in 1..Len(fArgs[1]) : ~ shouldIgnoreFile(fArgs[1][i].path, fArgs[2])}
C23_Nth(n) == CHOOSE i \in C23_Kept : Cardinality({j \in C23_Kept : j < i}) = n - 1

\* C23: the filter returns, in the original order and unchanged, exactly the files for
\* which shouldIgnoreFile is false; without patterns shouldIgnoreFile is false for every
\* path and all files are returned.
C23_FilterFrame ==
  fPc = "returned" =>
    /\ Len(fResult) = Cardinality(C23_Kept)
    /\ \A n \in 1..Len(fResult) : n <= Cardinality(C23_Kept) => fResult[n] = fArgs[1][C23_Nth(n)]
    /\ fArgs[2] = <<>> =>
          /\ \A p \in FilterPaths : ~ shouldIgnoreFile(p, fArgs[2])
          /\ fResult = fArgs[1]

\* three files of which the second is ignored and the other two are returned
C23_Witness ==
  /\ fPc = "returned"
  /\ Len(fArgs[1]) = 3
  /\ C23_Kept = {1, 3}
  /\ fArgs[1][1] # fArgs[1][3]
  /\ fResult = <<fArgs[1][1], fArgs[1][3]>>
  /\ fResult[1].diff # <<>>

(***************************************************************************)
(* Claims about the runs of the pipeline that follow (Spec).               *)
(***************************************************************************)
\* C24: when the dry-run option is set, no step of a run creates a thread on the host:
\* the pull request, which the runs find without threads, stays without threads.
C24_DryRunPostsNothing == options.dryRun => threads = <<>>

\* a dry run on a pull request of a known repository that went through the posting
\* steps with the full review and completed
C24_Witness ==
  /\ options.dryRun
  /\ options.prId
  /\ options.repositoryId
  /\ options.ignoreFiles = <<>>
  /\ pc = "done"
  /\ report = "completed"
  /\ modelReview = <<ReviewFull>>
  /\ threads = <<>>

(***************************************************************************)
(* Further properties of the sanitizer (specification SpecSan).            *)
(***************************************************************************)
\* a replacement line that is not blank, equals no original line and holds no original
\* line as a bounded fragment
C25_Unmatched(line) ==
  /\ trim(line) # <<>>
  /\ trim(line) \notin SegmentLines
  /\ \A o \in SegmentLines : o # <<>> => ~ BoundedOccurrence(line, o)

\* C25: a replacement line that is not blank, equals no original line and holds no
\* original line as a bounded fragment is a line of the output, unchanged up to blanks
\* at its end.
C25_OnlyMatchedTextRemoved ==
  sPc # "input" =>
    \A l \in ReplacementLines :
       C25_Unmatched(l) => \E k \in LinesOf(sOut) : trimEnd(k) = trimEnd(l)

\* C26: when the original range is readable and not empty and a replacement line
\* survives, no two adjacent lines of the text sanitize returns are identical.
C26_NoAdjacentDuplicates ==
  (sPc # "input" /\ C6_Survives) =>
    LET lines == splitOn(sOut, "\n")
    IN  \A i \in 1..(Len(lines) - 1) : lines[i] # lines[i + 1]

(***************************************************************************)
(* parseReview applied to payloads whose suggestions differ in their line  *)
(* numbers (SpecParseLines).  The schema takes every integer for           *)
(* start_line and end_line (schemas.ts 5, 50-56).                          *)
(***************************************************************************)
\* the line numbers of a payload: 0..MaxPayloadLine
MaxPayloadLine == 2

LineSources ==
  [file : {FileA}, start_line : 0..MaxPayloadLine,
   end_line : {<<>>} \cup {<<n>> : n \in 0..MaxPayloadLine},
   comment : {<<"c">>}, replacement : {<<"y">>}]

LineFindings ==
  [file : {<<FileA>>}, line : {<<1>>}, title : {<<"t">>}, details : {<<>>},
   suggestion : {<<>>} \cup {<<x>> : x \in LineSources}]

ParseLinesInit ==
  /\ disk = RunDisk
  /\ SanQuiet
  /\ RunQuiet
  /\ fPc = "input"
  /\ \E n \in 0..MaxSuggestions, m \in 0..MaxFindings :
        fArgs \in [summary : {<<"s">>}, findings : [1..m -> LineFindings],
                   suggestions : [1..n -> LineSources]]
  /\ fResult = <<>>

SpecParseLines == ParseLinesInit /\ [][ParseNext]_vars

\* the suggestions of the payload, top-level ones and those of the findings
C27_Sources ==
  {fArgs.suggestions[i] : i \in 1..Len(fArgs.suggestions)}
  \cup {fArgs.findings[i].suggestion[1] :
          i \in {j \in 1..Len(fArgs.findings) : fArgs.findings[j].suggestion # <<>>}}

\* C27: every suggestion parseReview returns has startLine >= 1 and endLine >=
\* startLine; when no suggestion of the payload has an end_line, endLine equals
\* startLine in each.
C27_LineRange ==
  fPc = "returned" =>
    \A i \in 1..Len(fResult.suggestions) :
       /\ fResult.suggestions[i].startLine >= 1
       /\ fResult.suggestions[i].endLine >= fResult.suggestions[i].startLine
       /\ (\A s \in C27_Sources : s.end_line = <<>>) =>
             fResult.suggestions[i].endLine = fResult.suggestions[i].startLine

(***************************************************************************)
(* Further properties of the runs (specification Spec).                    *)
(***************************************************************************)
\* the run has invoked the model and completed with exit status 0, not dry, on a pull
\* request whose repository id is known
C28_Reviewed ==
  /\ pc = "done"
  /\ PostedSuccessfully
  /\ exitCode = 0
  /\ modelCalls > 0

\* what the next run computes as last reviewed SHA from the threads now on the pull
\* request
C28_NextLastReviewedSha ==
  findLatestReviewedSha(fetchExistingCommentSignatures(threads, TRUE).summaries)

\* C28: after a run that invoked the model and completed with exit status 0, not dry,
\* with the repository id known, the last reviewed SHA computed from the threads then on
\* the pull request is the source SHA of that run.
C28_MarkerAdvance ==
  C28_Reviewed => C28_NextLastReviewedSha = diffInfo.sourceSha

\* the threads that were on the pull request when the current run began
C29_EarlierThreads ==
  LET earlier(thread) == thread.run < runNo
  IN  SelectSeq(threads, earlier)

\* C29: a run in which no listing of the threads has succeeded goes on without a last
\* reviewed SHA, with an empty prefetched set (where a prefetch was attempted) and, once
\* the posting context is prepared, with an empty deduplication set and no failing exit
\* status; in every run the deduplication set at the start of posting holds only
\* signatures of threads a listing could return.
C29_ListingFailureSwallowed ==
  /\ (pc \notin {"off", "idle"} /\ ~ fetched) =>
        /\ previousReviewSha = <<>>
        /\ preFetchedSignatures =
             IF options.prId /\ options.repositoryId THEN <<{}>> ELSE <<>>
        /\ startSigs = {}
        /\ pc \in {"loadDiff", "review", "prepare", "suggestions", "overall"} =>
              exitCode = 0 /\ report = "none"
  /\ (pc = "suggestions" /\ idx = 1 /\ startSigs # {}) =>
        startSigs \subseteq fetchExistingCommentSignatures(C29_EarlierThreads, TRUE).signatures

\* a run on a pull request that holds threads of an earlier run, both listings failed:
\* the run has completed and, its deduplication set being empty, has posted again
C29_Witness ==
  /\ pc = "done"
  /\ report = "completed"
  /\ exitCode = 0
  /\ options.prId /\ options.repositoryId /\ ~ options.dryRun
  /\ ~ fetched
  /\ C29_EarlierThreads # <<>>
  /\ fetchExistingCommentSignatures(C29_EarlierThreads, TRUE).summaries # <<>>
  /\ previousReviewSha = <<>>
  /\ CreatedNow # {}

(***************************************************************************)
(* Two runs of the tool on the same pull request whose posting phases      *)
(* interleave (SpecConcurrent): each run is a process of its own with its  *)
(* own deduplication set, the threads on the host are shared.  fArgs holds *)
(* the review of each run, fResult the position, the deduplication set and *)
(* the loop index of each run.  Both runs are on a pull request, not dry,  *)
(* with the repository id given, and every listing of the threads          *)
(* succeeds.                                                               *)
(***************************************************************************)
ConcurrentRuns == {1, 2}

ConcurrentOptions ==
  [prId |-> TRUE, repositoryId |-> TRUE, dryRun |-> FALSE, ignoreFiles |-> <<>>]

ConcurrentInit ==
  /\ disk = RunDisk
  /\ SanQuiet
  /\ options = ConcurrentOptions
  /\ threads = <<>>
  /\ history = <<1>>
  /\ runNo = 0
  /\ pc = "off"
  /\ lastRun = <<>>
  /\ previousReviewSha = <<>>
  /\ preFetchedSignatures = <<>>
  /\ existingCommentSignatures = <<>>
  /\ repositoryId = TRUE
  /\ diffInfo = NoDiff
  /\ modelReview = <<>>
  /\ filteredReview = <<>>
  /\ idx = 1
  /\ exitCode = 0
  /\ modelCalls = 0
  /\ report = "none"
  /\ fetched = FALSE
  /\ startSigs = {}
  /\ fPc = "concurrent"
  /\ fArgs \in [ConcurrentRuns -> ReviewPool]
  /\ fResult = [r \in ConcurrentRuns |-> [pc |-> "prepare", signatures |-> <<>>, idx |-> 1]]

\* the host stores the thread run r sends
createdBy(r, thread) == [hostCreateThread(thread) EXCEPT ![Len(threads) + 1].run = r]

\* createThread succeeds for post (when there is one) and run r records the signature
ConcurrentCreate(r, post, nextPc, nextIdx) ==
  /\ threads' = IF post = <<>> THEN threads ELSE createdBy(r, post[1].thread)
  /\ fResult' = [fResult EXCEPT
                   ![r] = [pc |-> nextPc,
                           signatures |-> IF post = <<>> THEN fResult[r].signatures
                                          ELSE recordSignature(fResult[r].signatures,
                                                               post[1].signature),
                           idx |-> nextIdx]]

\* preparePostingContext of run r
ConcurrentPrepare(r) ==
  /\ fPc = "concurrent"
  /\ fResult[r].pc = "prepare"
  /\ fResult' = [fResult EXCEPT
                   ![r] = [pc |-> "suggestions",
                           signatures |-> postingSignatures(
                                            fetchExistingCommentSignatures(threads, TRUE), TRUE),
                           idx |-> 1]]
  /\ UNCHANGED <<sanVars, runVars, fPc, fArgs>>

\* one iteration of the loop of postSuggestions in run r
ConcurrentPostSuggestion(r) ==
  /\ fPc = "concurrent"
  /\ fResult[r].pc = "suggestions"
  /\ fResult[r].idx <= Len(fArgs[r].suggestions)
  /\ ConcurrentCreate(r, suggestionPost(fArgs[r].suggestions[fResult[r].idx],
                                        fResult[r].signatures),
                      "suggestions", fResult[r].idx + 1)
  /\ UNCHANGED <<sanVars, fPc, fArgs, options, history, runNo, pc, lastRun, runLocals>>

\* postSuggestions of run r returns and postOverallComment follows
ConcurrentPostOverall(r) ==
  /\ fPc = "concurrent"
  /\ fResult[r].pc = "suggestions"
  /\ fResult[r].idx > Len(fArgs[r].suggestions)
  /\ ConcurrentCreate(r, overallPost(fArgs[r], fResult[r].signatures, <<Sha(1)>>),
                      "done", fResult[r].idx)
  /\ UNCHANGED <<sanVars, fPc, fArgs, options, history, runNo, pc, lastRun, runLocals>>

ConcurrentNext ==
  \E r \in ConcurrentRuns :
     \/ ConcurrentPrepare(r)
     \/ ConcurrentPostSuggestion(r)
     \/ ConcurrentPostOverall(r)

SpecConcurrent == ConcurrentInit /\ [][ConcurrentNext]_vars

\* C30: no two suggestion threads on the pull request have the same comment at the same
\* anchor, however the two runs interleave.
C30_NoConcurrentDuplicate ==
  fPc = "concurrent" =>
    \A i, j \in 1..Len(threads) :
       (/\ threads[i].threadContext # <<>>
        /\ threads[i].threadContext = threads[j].threadContext
        /\ threads[i].comments[1].content = threads[j].comments[1].content)
       => i = j

====
